---- MODULE Spec2Model ----
(***************************************************************************)
(* State-machine model of the plinking_duck table functions' scan kernels: *)
(* plink_freq / plink_hardy / plink_missing (variant mode), plink_missing  *)
(* (sample mode), plink_ld (pairwise and windowed), plink_score and        *)
(* read_pfile (tidy mode).  The host (DuckDB) creates up to MaxThreads()   *)
(* workers, runs init-local once per worker and then calls scan on each    *)
(* worker until that worker returns a batch of zero rows.                  *)
(*                                                                         *)
(* Variant and sample indices are 0-based as in the source; the dataset    *)
(* tables are TLA+ sequences, read through the accessors below.            *)
(***************************************************************************)
EXTENDS Integers, Sequences, FiniteSets, TLC

\* ------------------------------------------------------------------------
\* Bounds of the model
\* ------------------------------------------------------------------------

\* Output-batch capacity; stands for the host's STANDARD_VECTOR_SIZE (2048).
Capacity == 3

\* Variants claimed per fetch_add; stands for FREQ_BATCH_SIZE,
\* HARDY_BATCH_SIZE and MISSING_BATCH_SIZE (128 each).
BatchSize == 2

\* Worker threads the host has available.
NumWorkers == 2

\* Variants per additional thread in MaxThreads(); stands for the 500 of
\* plink_freq / plink_hardy / plink_missing and the 50 of plink_ld.
ThreadGrain == 1

\* Upper limit of MaxThreads() in the variant-parallel kernels.
MaxThreadCap == 16

Workers == 1..NumWorkers

Min(a, b) == IF a < b THEN a ELSE b

\* ------------------------------------------------------------------------
\* Input data: the .pvar sidecar (chrom, pos) and the .pgen genotypes
\* (pgenlib 2-bit codes: 0 hom-ref, 1 het, 2 hom-alt, 3 missing).
\* ------------------------------------------------------------------------

GenoA == << <<0, 1, 2, 3>>, <<1, 1, 0, 2>>, <<2, 3, 1, 0>>, <<0, 0, 1, 2>> >>
GenoB == << <<0, 1, 2, 0>>, <<0, 1, 2, 0>>, <<2, 0, 1, 3>>, <<1, 1, 1, 1>> >>
\* An all-missing variant, and two variants (1 and 3) that are both
\* polymorphic but share a single sample with both calls present.
GenoC == << <<3, 3, 3, 3>>, <<0, 1, 3, 3>>, <<1, 2, 0, 1>>, <<3, 1, 1, 2>> >>

\* The IID column of the .psam sidecar, by original sample index.
Iids == <<"S1", "S2", "S3", "S4">>

\* The ID, REF and ALT columns of the .pvar sidecar, by variant index.
VariantIds == <<"rs1", "rs2", "rs3", "rs4">>
Refs == <<"A", "A", "C", "C">>
Alts == <<"G", "G", "T", "T">>

\* One chromosome, two variants at the same position.
LayoutOneChrom == [chroms    |-> <<"1", "1", "1", "1">>,
                   positions |-> <<1000, 2000, 2000, 2500>>]
\* Two contiguous chromosome blocks, each position-sorted.
LayoutTwoChrom == [chroms    |-> <<"1", "1", "2", "2">>,
                   positions |-> <<1000, 1500, 500, 4000>>]

Datasets ==
    { [chroms |-> l.chroms, positions |-> l.positions, geno |-> g] :
          l \in {LayoutOneChrom, LayoutTwoChrom}, g \in {GenoA, GenoB, GenoC} }

RawVariantCt(ds) == Len(ds.chroms)
RawSampleCt(ds) == Len(ds.geno[1])

GetChrom(ds, vidx) == ds.chroms[vidx + 1]
GetPos(ds, vidx) == ds.positions[vidx + 1]
GetIid(orig_idx) == Iids[orig_idx + 1]
GetId(vidx) == VariantIds[vidx + 1]
GetRef(vidx) == Refs[vidx + 1]
GetAlt(vidx) == Alts[vidx + 1]
Geno(ds, vidx, sidx) == ds.geno[vidx + 1][sidx + 1]

\* ------------------------------------------------------------------------
\* State
\* ------------------------------------------------------------------------

VARIABLES
    call,        \* a bind-time utility taken on its own: its arguments and,
                 \* once it has run, what it returned or threw
    query,       \* the call the host makes: its parameters and file contents
    host,        \* where the host stands: "bind", "bound", "running", or the
                 \* exception bind threw: "invalid_input", "io_error"
    io,          \* history: the files bind has opened or loaded
    res,         \* res[w]: the decoder handles and aligned buffers worker w's
                 \* local state holds, and the order it released them in
    bind_data,   \* the bind data of the query (immutable after bind)
    gstate,      \* the global table-function state shared by all workers
    lstate,      \* lstate[w]: worker w's local state (lives across scan calls)
    frame,       \* frame[w]: the locals of worker w's current scan call
    pc,          \* pc[w]: where worker w stands
    aborted,     \* an exception has been thrown: the host aborts the query
    emitted,     \* history: row key -> number of times the row was written
    out,         \* history: row key -> the column values last written for it
    tested,      \* history: LD pair -> number of times its LD was computed
    claimed,     \* history: LD anchor -> number of times a worker claimed it
    last_row,    \* history: last_row[w] is the key of the last row w wrote
    ret,         \* history: ret[w] describes worker w's writes and returns
    phase_a      \* history: executions of the kernels' accumulation phase

vars == <<call, claimed, query, host, io, res, bind_data, gstate, lstate, frame, pc, aborted, emitted,
          out, tested, last_row, ret, phase_a>>

VariantKernels == {"freq", "hardy", "missing_variant"}
SampleKernels == {"missing_sample", "score"}
LdKernels == {"ld_pairwise", "ld_windowed"}
Kernels == VariantKernels \cup SampleKernels \cup LdKernels \cup {"tidy"}

\* The region filter of the query, as bind leaves it in variant_range.
VariantRanges ==
    { [has_filter |-> FALSE, start_idx |-> 0, end_idx |-> 0],
      [has_filter |-> TRUE, start_idx |-> 1, end_idx |-> 4],
      [has_filter |-> TRUE, start_idx |-> 2, end_idx |-> 2] }

\* Mutant of MaxThreads: the sample-mode kernels parallelised like the
\* variant-mode ones.
MaxThreadsParallelSampleMode(kernel, start_variant_idx, end_variant_idx) ==
    IF kernel \in {"ld_pairwise", "tidy"}
    THEN 1
    ELSE Min((end_variant_idx - start_variant_idx) \div ThreadGrain + 1, MaxThreadCap)

\* MaxThreads() of each kernel's global state.
MaxThreads(kernel, start_variant_idx, end_variant_idx) ==
    IF kernel \in {"missing_sample", "score", "ld_pairwise", "tidy"}
    THEN 1
    ELSE Min((end_variant_idx - start_variant_idx) \div ThreadGrain + 1, MaxThreadCap)

\* PlinkFreqInitGlobal and its siblings: the variant range, the claim
\* cursors at the start of the range, the projection flag and the
\* zero-initialised accumulators.
InitGlobal(bd, need) ==
    LET start == IF bd.variant_range.has_filter
                 THEN bd.variant_range.start_idx ELSE 0
        end   == IF bd.variant_range.has_filter
                 THEN bd.variant_range.end_idx ELSE RawVariantCt(bd.ds)
    IN [start_variant_idx     |-> start,
        end_variant_idx       |-> end,
        next_variant_idx      |-> start,
        next_anchor_idx       |-> IF bd.kernel = "ld_windowed" THEN start ELSE 0,
        next_sample_idx       |-> 0,
        need_genotypes        |-> need,
        pair_emitted          |-> FALSE,
        scoring_mutex         |-> 0,
        scoring_done          |-> FALSE,
        variant_scan_done     |-> FALSE,
        total_variant_ct      |-> end - start,
        allele_cts            |-> [s \in 0..(bd.effective_sample_ct - 1) |-> 0],
        named_allele_dosage_sums |-> [s \in 0..(bd.effective_sample_ct - 1) |-> 0],
        score_sums            |-> [s \in 0..(bd.effective_sample_ct - 1) |-> 0],
        sample_missing_counts |-> [s \in 0..(bd.effective_sample_ct - 1) |-> 0]]

\* A freshly constructed local state (the member initialisers).
NewLocalState ==
    [initialized |-> FALSE,
     in_window |-> FALSE, anchor_idx |-> 0, next_j |-> 0, genovec_a |-> -1,
     tidy_done |-> FALSE, tidy_current_variant_pos |-> 0,
     tidy_current_sample |-> 0, tidy_variant_loaded |-> FALSE]

NewFrame ==
    [rows_emitted |-> 0, vidx |-> 0, batch_end |-> 0, j |-> 0,
     anchor_chrom |-> "", anchor_pos |-> 0, sv |-> 0]

NoReturn == [calls |-> 0, rows |-> 0, work_left |-> FALSE, overflow |-> FALSE,
             ascending |-> TRUE]

\* The queries the model runs: one kernel, one dataset, one region filter,
\* one projection, and the options of plink_ld.
\* The samples parameter: absent, or a list of distinct original sample
\* indices in the caller's order.
SampleParams ==
    { [given |-> FALSE, indices |-> << >>],
      [given |-> TRUE, indices |-> <<3, 0>>],
      [given |-> TRUE, indices |-> <<2, 3, 1>>] }

\* Weights are kept in tenths and score sums in units of
\* 1 / (WeightScale * DosageScale); dosages and their means are kept in
\* units of 1 / DosageScale, which every mean over one to four calls fits.
WeightScale == 10
DosageScale == 12

\* The positional weights 0.5, -0.3, 1.2, 0.8 of the four variants.
FixtureWeights == <<5, -3, 12, 8>>

\* The weights parameter: absent; a list of numbers (the positional weights
\* of the last n variants); or a list of (id, allele, weight) structs, given
\* here in descending variant order, with an id no variant has, an allele
\* that is neither REF nor ALT of its variant, and a REF allele.
WeightParams ==
    { [mode |-> "none", list |-> << >>],
      [mode |-> "positional", list |-> FixtureWeights],
      [mode |-> "positional", list |-> Tail(FixtureWeights)],
      [mode |-> "id_keyed",
       list |-> << [id |-> "rs4", allele |-> "T", weight |-> 8],
                   [id |-> "rs9", allele |-> "G", weight |-> 7],
                   [id |-> "rs3", allele |-> "G", weight |-> 12],
                   [id |-> "rs2", allele |-> "A", weight |-> -3],
                   [id |-> "rs1", allele |-> "G", weight |-> 5] >>] }

BindInputs ==
    [kernel : Kernels, ds : Datasets, variant_range : VariantRanges,
     window_kb : {0, 1}, inter_chr : BOOLEAN,
     r2_threshold : {<<0, 1>>, <<1, 5>>}, need : BOOLEAN,
     center : BOOLEAN, no_mean_imputation : BOOLEAN,
     weights : WeightParams, samples : SampleParams]

\* Options a kernel does not read are fixed, so that each query is run once.
Relevant(b) ==
    /\ b.kernel # "ld_windowed" =>
          b.window_kb = 0 /\ ~b.inter_chr /\ b.r2_threshold = <<0, 1>>
    /\ b.kernel \in LdKernels \cup {"score"} => b.need
    /\ b.kernel # "score" =>
          ~b.center /\ ~b.no_mean_imputation /\ b.weights.mode = "none"
    /\ b.weights.mode = "positional" =>
          Len(b.weights.list) = (IF b.variant_range.start_idx = 1 THEN 3 ELSE 4)
    /\ b.kernel \notin SampleKernels => ~b.samples.given
    /\ b.kernel \notin LdKernels => b.ds.chroms = LayoutOneChrom.chroms
    /\ b.kernel \in {"freq", "missing_variant", "tidy"} => b.ds.geno = GenoA
    /\ b.kernel = "hardy" => b.ds.geno \in {GenoA, GenoC}
    /\ b.kernel = "ld_windowed" => b.ds.geno \in {GenoA, GenoB}

\* Mutant of SortIndices: the caller's order is kept.
KeepOrder(seq) == seq

\* std::sort, ascending.
RECURSIVE InsertSorted(_, _)
InsertSorted(seq, x) ==
    IF seq = << >> THEN <<x>>
    ELSE IF x < Head(seq) THEN <<x>> \o seq
    ELSE <<Head(seq)>> \o InsertSorted(Tail(seq), x)

RECURSIVE SortIndices(_)
SortIndices(seq) ==
    IF seq = << >> THEN << >>
    ELSE InsertSorted(SortIndices(Tail(seq)), Head(seq))

\* sample_output_order (plink_score) / subset_original_indices
\* (plink_missing): effective slot -> original sample index.
SampleOutputOrder(samples, raw_sample_ct) ==
    IF samples.given
    THEN SortIndices(samples.indices)
    ELSE [i \in 1..raw_sample_ct |-> i - 1]

\* BuildSampleSubset: the sample_include bitmask (SetBit for every index).
SampleInclude(samples, raw_sample_ct) ==
    IF samples.given
    THEN {samples.indices[i] : i \in DOMAIN samples.indices}
    ELSE 0..(raw_sample_ct - 1)

\* The included sample a subset-aware read delivers at slot s: the one with
\* s included samples below it (the cumulative popcounts of the subset).
SubsetSample(sample_include, s) ==
    CHOOSE x \in sample_include : Cardinality({y \in sample_include : y < x}) = s

\* std::sort of the scored variants by variant_idx.
RECURSIVE InsertByVariantIdx(_, _)
InsertByVariantIdx(seq, sv) ==
    IF seq = << >> THEN <<sv>>
    ELSE IF sv.variant_idx < Head(seq).variant_idx THEN <<sv>> \o seq
    ELSE <<Head(seq)>> \o InsertByVariantIdx(Tail(seq), sv)

RECURSIVE SortByVariantIdx(_)
SortByVariantIdx(seq) ==
    IF seq = << >> THEN << >>
    ELSE InsertByVariantIdx(SortByVariantIdx(Tail(seq)), Head(seq))

\* variant_id_map.find(id): the variant of [range_start, range_end) with
\* that id, or -1 (the ids of the sidecar are distinct).
FindVariantId(id, range_start, range_end) ==
    IF \E v \in range_start..(range_end - 1) : GetId(v) = id
    THEN CHOOSE v \in range_start..(range_end - 1) : GetId(v) = id
    ELSE -1

\* Mutant of AlleleMatches: any allele taken for the ALT allele.
AlleleAlwaysMatches(allele, vidx) == TRUE

\* allele == alts[vidx] || allele == refs[vidx]
AlleleMatches(allele, vidx) == allele = GetAlt(vidx) \/ allele = GetRef(vidx)

\* The loop over the (id, allele, weight) entries: an entry whose id is not
\* in the map, or whose allele is neither ALT nor REF, is skipped
\* (continue); one with a zero weight is not pushed; a REF allele sets flip.
RECURSIVE MatchEntries(_, _, _)
MatchEntries(list, range_start, range_end) ==
    IF list = << >> THEN << >>
    ELSE LET e == Head(list)
             vidx == FindVariantId(e.id, range_start, range_end)
             rest == MatchEntries(Tail(list), range_start, range_end)
         IN IF vidx = -1 \/ ~AlleleMatches(e.allele, vidx) \/ e.weight = 0
            THEN rest
            ELSE <<[variant_idx |-> vidx, weight |-> e.weight,
                    flip |-> e.allele # GetAlt(vidx)]>> \o rest

\* The loop over the positional weights: entry i is variant range_start + i,
\* pushed unless its weight is zero.
RECURSIVE PositionalEntries(_, _)
PositionalEntries(list, vidx) ==
    IF list = << >> THEN << >>
    ELSE (IF Head(list) = 0 THEN << >>
          ELSE <<[variant_idx |-> vidx, weight |-> Head(list), flip |-> FALSE]>>)
         \o PositionalEntries(Tail(list), vidx + 1)

\* The scored-variant list bind builds from the weights parameter.
ScoredVariants(b) ==
    LET start == IF b.variant_range.has_filter THEN b.variant_range.start_idx ELSE 0
        end   == IF b.variant_range.has_filter
                 THEN b.variant_range.end_idx ELSE RawVariantCt(b.ds)
    IN IF b.weights.mode = "id_keyed"
       THEN SortByVariantIdx(MatchEntries(b.weights.list, start, end))
       ELSE PositionalEntries(b.weights.list, start)

\* The weights list bind rejects once the parameter was found: an empty
\* list, or a positional list whose length is not the variant count of the
\* range.
WeightsListInvalid(b) ==
    LET start == IF b.variant_range.has_filter THEN b.variant_range.start_idx ELSE 0
        end   == IF b.variant_range.has_filter
                 THEN b.variant_range.end_idx ELSE RawVariantCt(b.ds)
    IN /\ b.kernel = "score"
       /\ b.weights.mode # "none"
       /\ \/ b.weights.list = << >>
          \/ b.weights.mode = "positional" /\ Len(b.weights.list) # end - start

Bind(b) ==
    [kernel |-> b.kernel, ds |-> b.ds, variant_range |-> b.variant_range,
     window_bp |-> b.window_kb * 1000, inter_chr |-> b.inter_chr,
     r2_threshold |-> b.r2_threshold,
     pairwise_vidx_a |-> 1, pairwise_vidx_b |-> 3,
     scored_variants |-> IF b.kernel = "score" THEN ScoredVariants(b) ELSE << >>,
     center |-> b.center, no_mean_imputation |-> b.no_mean_imputation,
     has_sample_subset |-> b.samples.given,
     sample_include |-> SampleInclude(b.samples, RawSampleCt(b.ds)),
     sample_output_order |-> SampleOutputOrder(b.samples, RawSampleCt(b.ds)),
     effective_sample_ct |-> IF b.samples.given THEN Len(b.samples.indices)
                             ELSE RawSampleCt(b.ds)]

\* The bind data and the global state before bind and init-global have run.
NoBindData ==
    [kernel |-> "none", ds |-> [chroms |-> << >>, positions |-> << >>, geno |-> << >>],
     variant_range |-> [has_filter |-> FALSE, start_idx |-> 0, end_idx |-> 0],
     window_bp |-> 0, inter_chr |-> FALSE, r2_threshold |-> <<0, 1>>,
     pairwise_vidx_a |-> 0, pairwise_vidx_b |-> 0, scored_variants |-> << >>,
     center |-> FALSE, no_mean_imputation |-> FALSE,
     has_sample_subset |-> FALSE, sample_include |-> {},
     sample_output_order |-> << >>, effective_sample_ct |-> 0]

NoGlobalState == InitGlobal(NoBindData, FALSE)

\* A worker without a local state: no handle, no buffer.
NoResources ==
    [alive |-> FALSE, pgfi |-> "none", pgr |-> "none", bufs |-> {},
     released |-> << >>]

\* No utility call is under way.
NoCall == [fn |-> "none", done |-> FALSE]

\* The host before bind: nothing opened, nothing constructed, nothing written.
BeforeBind ==
    /\ host = "bind"
    /\ io = {}
    /\ res = [w \in Workers |-> NoResources]
    /\ bind_data = NoBindData
    /\ gstate = NoGlobalState
    /\ pc = [w \in Workers |-> "not_created"]
    /\ lstate = [w \in Workers |-> NewLocalState]
    /\ frame = [w \in Workers |-> NewFrame]
    /\ aborted = FALSE
    /\ emitted = << >>
    /\ out = << >>
    /\ tested = << >>
    /\ claimed = << >>
    /\ last_row = [w \in Workers |-> << >>]
    /\ ret = [w \in Workers |-> NoReturn]
    /\ phase_a = [starts |-> 0, completions |-> 0, running |-> {}]

InitWith(honour_max_threads) ==
    \E b \in BindInputs :
       /\ Relevant(b)
       /\ query = [params |-> b, honour_max_threads |-> honour_max_threads]
       /\ call = NoCall
       /\ BeforeBind

Init == InitWith(TRUE)

\* The same queries with the host running NumWorkers workers whatever
\* MaxThreads() answers.
InitAnyWorkers == InitWith(FALSE)

\* ------------------------------------------------------------------------
\* The host: bind, init-global, init-local, the scan calls, exceptions
\* ------------------------------------------------------------------------

\* What bind has read once it is past the file-loading part: the .pgen
\* header (PgfiInitPhase1/2, closed again by CleanupPgfi), the .pvar sidecar
\* and the .psam sidecar (the modelled queries all have one).
BindFiles == {"pgen_header", "pvar", "psam"}

\* Mutant of WeightsMissing: the check for the parameter left out.
WeightsNotChecked(b) == FALSE

\* input.named_parameters.find("weights") == end(), in PlinkScoreBind after
\* the header was read and the sidecars were loaded.
WeightsMissing(b) == b.kernel = "score" /\ b.weights.mode = "none"

\* if (center && no_mean_imputation), right after the named parameters
\* were read.
CenterWithoutImputation(b) ==
    b.kernel = "score" /\ b.center /\ b.no_mean_imputation

\* Plink*Bind.  PlinkScoreBind checks center && no_mean_imputation right
\* after the named-parameter loop, then opens the .pgen (which may fail) and
\* loads the sidecars, and only then looks for the weights parameter.
BindQuery ==
    /\ host = "bind"
    /\ LET b == query.params
       IN IF CenterWithoutImputation(b)
          THEN /\ host' = "invalid_input"
               /\ UNCHANGED <<io, bind_data>>
          ELSE \/ /\ host' = "io_error"
                  /\ UNCHANGED <<io, bind_data>>
               \/ /\ io' = BindFiles
                  /\ IF WeightsMissing(b) \/ WeightsListInvalid(b)
                     THEN /\ host' = "invalid_input"
                          /\ UNCHANGED bind_data
                     ELSE /\ host' = "bound"
                          /\ bind_data' = Bind(b)
    /\ UNCHANGED <<call, claimed, query, res, gstate, lstate, frame, pc, aborted, emitted, out, tested,
                   last_row, ret, phase_a>>

\* Plink*InitGlobal, and the host creating MaxThreads() workers (or, when
\* the query says so, all it has).
InitGlobalState ==
    /\ host = "bound"
    /\ host' = "running"
    /\ LET g == InitGlobal(bind_data, query.params.need)
           n == IF query.honour_max_threads
                THEN Min(NumWorkers,
                         MaxThreads(bind_data.kernel, g.start_variant_idx,
                                    g.end_variant_idx))
                ELSE NumWorkers
       IN /\ gstate' = g
          /\ pc' = [w \in Workers |-> IF w <= n THEN "init" ELSE "unused"]
    /\ UNCHANGED <<call, claimed, query, io, res, bind_data, lstate, frame, aborted, emitted, out, tested,
                   last_row, ret, phase_a>>

Bump(f, k) == IF k \in DOMAIN f THEN [f EXCEPT ![k] = @ + 1] ELSE f @@ (k :> 1)
Count(f, k) == IF k \in DOMAIN f THEN f[k] ELSE 0

\* An exception leaves the scan call (or init-local); the host aborts the
\* query and starts no further scan call.
Throw(w) ==
    /\ aborted' = TRUE
    /\ pc' = [pc EXCEPT ![w] = "failed"]

\* The call a subset-aware read of variant vidx delivers at effective slot s.
SubsetGeno(vidx, s) ==
    Geno(bind_data.ds, vidx, SubsetSample(bind_data.sample_include, s))

\* A column value of an output row: SQL NULL (FlatVector::SetNull), or a
\* value, kept as a tuple of integers.
NullValue == [is_null |-> TRUE, val |-> << >>]
Value(v) == [is_null |-> FALSE, val |-> v]

\* Mutant of OpensReader: a reader for every worker of every query.
OpensReaderAlways == TRUE

\* Whether init-local opens a decoder reader for this query.
OpensReader ==
    CASE bind_data.kernel \in LdKernels -> TRUE
      [] bind_data.kernel = "score" -> bind_data.scored_variants # << >>
      [] OTHER -> gstate.need_genotypes

\* CleanupPgr / CleanupPgfi: close the handle's file and note the release.
CleanupPgr(r) == [r EXCEPT !.pgr = "closed", !.released = Append(@, "pgr")]

CleanupPgfi(r) == [r EXCEPT !.pgfi = "closed", !.released = Append(@, "pgfi")]

\* The AlignedBuffer members are destroyed after the destructor body, each
\* freeing its memory; the local state is gone.
FreeBuffers(r) ==
    [r EXCEPT !.alive = FALSE, !.bufs = {},
              !.released = IF r.bufs = {} THEN @ ELSE Append(@, "bufs")]

\* Mutant of Destructor: the header context cleaned up before the reader.
DestructorHeaderFirst(initialized, r) ==
    IF initialized THEN FreeBuffers(CleanupPgr(CleanupPgfi(r))) ELSE FreeBuffers(r)

\* ~Plink*LocalState: CleanupPgr then CleanupPgfi, only if (initialized);
\* then the members.
Destructor(initialized, r) ==
    IF initialized THEN FreeBuffers(CleanupPgfi(CleanupPgr(r))) ELSE FreeBuffers(r)

\* Whether init-local allocates working buffers after PgrInit (genovec,
\* dosage, missingness buffers): every kernel but plink_freq and plink_hardy.
HasWorkBuffers == bind_data.kernel \notin {"freq", "hardy"}

\* The points at which the body of init-local can leave: a pgenlib call
\* returning an error, an AlignedBuffer::Allocate throwing, or the return.
InitLocalOutcomes ==
    {"phase1_failed", "pgfi_alloc_failed", "phase2_failed", "pgr_alloc_failed",
     "pgr_init_failed", "ok"}
    \cup (IF HasWorkBuffers THEN {"work_alloc_failed"} ELSE {})

\* What the local state holds when the body of init-local leaves at the
\* given point.  The failure branches of the pgenlib calls run their
\* explicit cleanup before throwing; a throwing Allocate runs none.
InitLocalResources(outcome) ==
    LET made == [NoResources EXCEPT !.alive = TRUE]
        phase1 == [made EXCEPT !.pgfi = "open"]
        phase2 == [phase1 EXCEPT !.bufs = {"pgfi_alloc_buf"}]
        pgr_alloc == [phase2 EXCEPT !.bufs = @ \cup {"pgr_alloc_buf"}]
        pgr_init == [pgr_alloc EXCEPT !.pgr = "open"]
    IN CASE outcome = "phase1_failed" -> CleanupPgfi(phase1)
         [] outcome = "pgfi_alloc_failed" -> phase1
         [] outcome = "phase2_failed" -> CleanupPgfi(phase2)
         [] outcome = "pgr_alloc_failed" -> phase2
         [] outcome = "pgr_init_failed" -> CleanupPgfi(CleanupPgr(pgr_init))
         [] outcome = "work_alloc_failed" -> pgr_init
         [] outcome = "ok" ->
              IF HasWorkBuffers
              THEN [pgr_init EXCEPT !.bufs = @ \cup {"work_bufs"}]
              ELSE pgr_init

\* Plink*InitLocal: makes the local state and returns it uninitialised when
\* no reader is needed; else opens the header context and the reader and
\* sets initialized, or throws, and the unique_ptr holding the state then
\* destroys it.
InitLocal(w) ==
    /\ pc[w] = "init"
    /\ ~aborted
    /\ IF OpensReader
       THEN \E outcome \in InitLocalOutcomes :
               IF outcome = "ok"
               THEN /\ lstate' = [lstate EXCEPT ![w].initialized = TRUE]
                    /\ res' = [res EXCEPT ![w] = InitLocalResources(outcome)]
                    /\ pc' = [pc EXCEPT ![w] = "idle"]
                    /\ UNCHANGED aborted
               ELSE /\ Throw(w)
                    /\ res' = [res EXCEPT ![w] =
                                 Destructor(FALSE, InitLocalResources(outcome))]
                    /\ UNCHANGED lstate
       ELSE /\ pc' = [pc EXCEPT ![w] = "idle"]
            /\ res' = [res EXCEPT ![w].alive = TRUE]
            /\ UNCHANGED <<lstate, aborted>>
    /\ UNCHANGED <<call, claimed, query, host, io, bind_data, gstate, frame, emitted, out, tested, last_row, ret, phase_a>>

\* The host destroys a worker's local state once the worker has returned
\* its last batch, has thrown, or the query was aborted or cancelled while
\* the worker was between two scan calls.
DestroyLocal(w) ==
    /\ res[w].alive
    /\ \/ pc[w] \in {"finished", "failed"}
       \/ aborted /\ pc[w] = "idle"
    /\ res' = [res EXCEPT ![w] = Destructor(lstate[w].initialized, res[w])]
    /\ UNCHANGED <<call, claimed, query, host, io, bind_data, gstate, lstate, frame, pc, aborted,
                   emitted, out, tested, last_row, ret, phase_a>>

\* The first statement a scan call of the kernel executes.
EntryPoint ==
    CASE bind_data.kernel \in VariantKernels -> "claim"
      [] bind_data.kernel = "ld_pairwise" -> "ld_pairwise"
      [] bind_data.kernel = "ld_windowed" -> "ld_loop"
      [] bind_data.kernel = "score" -> "score_check"
      [] bind_data.kernel = "missing_sample" -> "ms_phase1"
      [] bind_data.kernel = "tidy" -> "tidy_loop"

\* The host calls scan on a worker whose previous batch was not empty.
BeginScan(w) ==
    /\ pc[w] = "idle"
    /\ ~aborted
    /\ pc' = [pc EXCEPT ![w] = EntryPoint]
    /\ frame' = [frame EXCEPT ![w] = NewFrame]
    /\ UNCHANGED <<call, claimed, query, host, io, res, bind_data, gstate, lstate, aborted, emitted, out, tested, last_row,
                   ret, phase_a>>

\* Work this worker could still do: an anchor being scanned, or something
\* left to claim on the shared cursor of its kernel.
WorkLeft(g, l) ==
    CASE bind_data.kernel \in VariantKernels ->
            g.next_variant_idx < g.end_variant_idx
      [] bind_data.kernel = "ld_windowed" ->
            \/ l.in_window /\ l.next_j < g.end_variant_idx
            \/ g.next_anchor_idx < g.end_variant_idx
      [] bind_data.kernel = "ld_pairwise" -> ~g.pair_emitted
      [] bind_data.kernel \in SampleKernels ->
            g.next_sample_idx < bind_data.effective_sample_ct
      [] bind_data.kernel = "tidy" -> ~l.tidy_done

\* output.SetCardinality(n) and return: the host takes the batch; a batch
\* of zero rows ends the worker's part of the query.
\* (g, l: the global state and the worker's local state at the return.)
Return(w, n, g, l) ==
    /\ pc' = [pc EXCEPT ![w] = IF n = 0 THEN "finished" ELSE "idle"]
    /\ ret' = [ret EXCEPT ![w] = [calls |-> @.calls + 1, rows |-> n,
                                  work_left |-> WorkLeft(g, l),
                                  overflow |-> @.overflow,
                                  ascending |-> @.ascending]]

\* Lexicographic order of two row keys of the same length.
KeyLess(a, b) ==
    \E i \in 1..Len(a) : a[i] < b[i] /\ \A k \in 1..(i - 1) : a[k] = b[k]

\* A row is written at index rows_emitted of the output batch.
WriteRow(w, key, row) ==
    /\ emitted' = Bump(emitted, key)
    /\ out' = [k \in DOMAIN out \cup {key} |-> IF k = key THEN row ELSE out[k]]
    /\ last_row' = [last_row EXCEPT ![w] = key]
    /\ ret' = [ret EXCEPT ![w].overflow =
                               @ \/ frame[w].rows_emitted >= Capacity,
                           ![w].ascending =
                               @ /\ (last_row[w] = << >> \/ KeyLess(last_row[w], key))]

\* ------------------------------------------------------------------------
\* plink_freq, plink_hardy, plink_missing (variant mode): PlinkFreqScan,
\* PlinkHardyScan and PlinkMissingScanVariant share one claim loop.
\* ------------------------------------------------------------------------

\* Mutant of BatchHasRoom: an if where the while belongs (one claim per call).
BatchHasRoomOnce(rows_emitted) == rows_emitted = 0

\* while (rows_emitted < STANDARD_VECTOR_SIZE)
BatchHasRoom(rows_emitted) == rows_emitted < Capacity

\* Mutant of ClaimSize: a fixed claim of BATCH_SIZE variants.
ClaimSizeFixed(rows_emitted) == BatchSize

\* claim_size = min(BATCH_SIZE, STANDARD_VECTOR_SIZE - rows_emitted)
ClaimSize(rows_emitted) == Min(BatchSize, Capacity - rows_emitted)

\* Mutant of FetchAdd: the cursor advanced by one less than was claimed.
FetchAddShort(cursor, claim_size) == cursor + claim_size - 1

\* The cursor after next_variant_idx.fetch_add(claim_size).
FetchAdd(cursor, claim_size) == cursor + claim_size

\* Mutant of BatchEnd: the batch sized by BATCH_SIZE whatever was claimed.
BatchEndFixed(batch_start, claim_size, end_idx) == Min(batch_start + BatchSize, end_idx)

\* batch_end = min(batch_start + claim_size, end_idx)
BatchEnd(batch_start, claim_size, end_idx) == Min(batch_start + claim_size, end_idx)

\* Loop head: the while condition, the fetch_add on the shared cursor and
\* the end-of-range test.
VariantClaim(w) ==
    /\ pc[w] = "claim"
    /\ LET rows == frame[w].rows_emitted
           claim_size == ClaimSize(rows)
           batch_start == gstate.next_variant_idx
           end_idx == gstate.end_variant_idx
       IN IF ~BatchHasRoom(rows)
          THEN /\ Return(w, rows, gstate, lstate[w])
               /\ UNCHANGED <<gstate, frame>>
          ELSE /\ gstate' = [gstate EXCEPT !.next_variant_idx =
                                               FetchAdd(@, claim_size)]
               /\ IF batch_start >= end_idx
                  THEN /\ Return(w, rows, gstate', lstate[w])
                       /\ UNCHANGED frame
                  ELSE /\ frame' = [frame EXCEPT
                                       ![w].vidx = batch_start,
                                       ![w].batch_end =
                                           BatchEnd(batch_start, claim_size, end_idx)]
                       /\ pc' = [pc EXCEPT ![w] = "emit"]
                       /\ UNCHANGED ret
    /\ UNCHANGED <<call, claimed, query, host, io, res, bind_data, lstate, aborted, emitted, out, tested, last_row, phase_a>>

\* PgrGetCounts: the numbers of hom-ref, het, hom-alt and missing calls of
\* the variant among the effective samples.
GenoCounts(vidx) ==
    LET Is(c) == {s \in 0..(bind_data.effective_sample_ct - 1) : SubsetGeno(vidx, s) = c}
    IN <<Cardinality(Is(0)), Cardinality(Is(1)), Cardinality(Is(2)),
         Cardinality(Is(3))>>

\* Mutant of HardyRow: the p-value of a variant without observations
\* written as 1.0.
HardyRowPValueOne(genocounts) ==
    LET obs == genocounts[1] + genocounts[2] + genocounts[3]
    IN [hom_ref_ct |-> genocounts[1], het_ct |-> genocounts[2],
        hom_alt_ct |-> genocounts[3],
        o_het |-> IF obs = 0 THEN NullValue ELSE Value(<<genocounts[2], obs>>),
        e_het |-> IF obs = 0 THEN NullValue
                  ELSE Value(<<2 * (2 * genocounts[1] + genocounts[2])
                                 * (2 * genocounts[3] + genocounts[2]),
                               (2 * obs) * (2 * obs)>>),
        p_hwe |-> IF obs = 0 THEN Value(<<"1.0">>)
                  ELSE Value(<<"HweExactTest", genocounts[1], genocounts[2],
                               genocounts[3]>>)]

\* The statistics columns of a plink_hardy row.  o_het = het / obs and
\* e_het = 2pq with p = (2 hom_ref + het) / (2 obs) are kept as fractions
\* <<numerator, denominator>>; the p-value is kept as the call of
\* HweExactTest that computes it.  All three are NULL when stats_are_null
\* (obs == 0): the 1.0 the scan holds for p_hwe then is never written.
HardyRow(genocounts) ==
    LET hom_ref == genocounts[1]
        het == genocounts[2]
        hom_alt == genocounts[3]
        obs == hom_ref + het + hom_alt
        stats_are_null == obs = 0
    IN [hom_ref_ct |-> hom_ref, het_ct |-> het, hom_alt_ct |-> hom_alt,
        o_het |-> IF stats_are_null THEN NullValue ELSE Value(<<het, obs>>),
        e_het |-> IF stats_are_null THEN NullValue
                  ELSE Value(<<2 * (2 * hom_ref + het) * (2 * hom_alt + het),
                               (2 * obs) * (2 * obs)>>),
        p_hwe |-> IF stats_are_null THEN NullValue
                  ELSE Value(<<"HweExactTest", hom_ref, het, hom_alt>>)]

\* The row of a variant-oriented kernel; genocounts stay zero when no
\* genotype column is projected.
VariantRow(w, vidx) ==
    LET genocounts == IF gstate.need_genotypes /\ lstate[w].initialized
                      THEN GenoCounts(vidx) ELSE <<0, 0, 0, 0>>
    IN IF bind_data.kernel = "hardy"
       THEN HardyRow(genocounts)
       ELSE [genocounts |-> genocounts]

\* One iteration of the for loop over the claimed batch: read the counts
\* (which may fail), fill the projected columns, rows_emitted++.
VariantEmit(w) ==
    /\ pc[w] = "emit"
    /\ \/ /\ gstate.need_genotypes /\ lstate[w].initialized
          /\ Throw(w)
          /\ UNCHANGED <<frame, emitted, out, last_row, ret>>
       \/ /\ WriteRow(w, <<frame[w].vidx>>, VariantRow(w, frame[w].vidx))
          /\ frame' = [frame EXCEPT ![w].rows_emitted = @ + 1,
                                    ![w].vidx = @ + 1]
          /\ pc' = [pc EXCEPT ![w] = IF frame[w].vidx + 1 < frame[w].batch_end
                                     THEN "emit" ELSE "claim"]
          /\ UNCHANGED aborted
    /\ UNCHANGED <<call, claimed, query, host, io, res, bind_data, gstate, lstate, tested, phase_a>>

\* ------------------------------------------------------------------------
\* plink_ld
\* ------------------------------------------------------------------------

\* Sum of F(0) .. F(k - 1).
RECURSIVE SumTo(_, _)
SumTo(F(_), k) == IF k = 0 THEN 0 ELSE F(k - 1) + SumTo(F, k - 1)

\* Mutant of ZeroVariance: only the first variant's variance looked at.
ZeroVarianceFirstOnly(var_a_n, var_b_n) == var_a_n = 0

\* if (var_a < 1e-15 || var_b < 1e-15), on the scaled variances.
ZeroVariance(var_a_n, var_b_n) == var_a_n = 0 \/ var_b_n = 0

\* ComputeLdStats on the genotypes of variants va and vb.  The sums run over
\* the samples where both calls are non-missing.  The doubles of the source
\* are kept as exact fractions over n * n: cov = cov_n / n^2, var = var_n / n^2,
\* so r2 = cov_n^2 / (var_a_n * var_b_n).  A variance below 1e-15 is a zero
\* numerator (a non-zero one gives var >= 1 / n^2).
ComputeLdStats(ds, va, vb, sample_ct) ==
    LET Both(s) == Geno(ds, va, s) # 3 /\ Geno(ds, vb, s) # 3
        One(s)  == IF Both(s) THEN 1 ELSE 0
        A(s)    == IF Both(s) THEN Geno(ds, va, s) ELSE 0
        B(s)    == IF Both(s) THEN Geno(ds, vb, s) ELSE 0
        AB(s)   == A(s) * B(s)
        A2(s)   == A(s) * A(s)
        B2(s)   == B(s) * B(s)
        n       == SumTo(One, sample_ct)
        sum_a   == SumTo(A, sample_ct)
        sum_b   == SumTo(B, sample_ct)
        cov_n   == n * SumTo(AB, sample_ct) - sum_a * sum_b
        var_a_n == n * SumTo(A2, sample_ct) - sum_a * sum_a
        var_b_n == n * SumTo(B2, sample_ct) - sum_b * sum_b
        valid   == ~(n < 2) /\ ~ZeroVariance(var_a_n, var_b_n)
    IN [obs_ct |-> n, is_valid |-> valid,
        r2_num |-> IF valid THEN cov_n * cov_n ELSE 0,
        r2_den |-> IF valid THEN var_a_n * var_b_n ELSE 1]

\* result.is_valid && result.r2 >= bind_data.r2_threshold
Qualifies(result, thr) ==
    result.is_valid /\ result.r2_num * thr[2] >= thr[1] * result.r2_den

\* EmitRow: R2 and D_PRIME are NULL unless the result is valid (the value
\* of D' is not modelled), OBS_CT is always written.
LdRow(result) ==
    [r2 |-> IF result.is_valid THEN Value(<<result.r2_num, result.r2_den>>)
            ELSE NullValue,
     d_prime |-> IF result.is_valid THEN Value(<< >>) ELSE NullValue,
     obs_ct |-> result.obs_ct]

\* Mutant of ExchangePairEmitted: the flag is read but never set.
ExchangePairEmittedNoStore(g) == g

\* The global state after pair_emitted.exchange(true).
ExchangePairEmitted(g) == [g EXCEPT !.pair_emitted = TRUE]

\* Pairwise mode, the exchange on pair_emitted.
LdPairwiseClaim(w) ==
    /\ pc[w] = "ld_pairwise"
    /\ IF ~lstate[w].initialized
       THEN /\ Return(w, 0, gstate, lstate[w])
            /\ UNCHANGED gstate
       ELSE /\ gstate' = ExchangePairEmitted(gstate)
            /\ IF gstate.pair_emitted
               THEN Return(w, 0, gstate', lstate[w])
               ELSE /\ pc' = [pc EXCEPT ![w] = "ld_pair_emit"]
                    /\ UNCHANGED ret
    /\ UNCHANGED <<call, claimed, query, host, io, res, bind_data, lstate, frame, aborted, emitted, out, tested, last_row,
                   phase_a>>

\* Pairwise mode: read both variants (either read may fail), compute,
\* EmitRow at row 0, SetCardinality(1).
LdPairwiseEmit(w) ==
    /\ pc[w] = "ld_pair_emit"
    /\ \/ /\ Throw(w)
          /\ UNCHANGED <<lstate, emitted, out, tested, last_row, ret>>
       \/ /\ lstate' = [lstate EXCEPT ![w].genovec_a = bind_data.pairwise_vidx_a]
          /\ tested' = Bump(tested, <<bind_data.pairwise_vidx_a,
                                      bind_data.pairwise_vidx_b>>)
          /\ emitted' = Bump(emitted, <<bind_data.pairwise_vidx_a,
                                        bind_data.pairwise_vidx_b>>)
          /\ out' = (<<bind_data.pairwise_vidx_a, bind_data.pairwise_vidx_b>> :>
                        LdRow(ComputeLdStats(bind_data.ds, bind_data.pairwise_vidx_a,
                                             bind_data.pairwise_vidx_b,
                                             bind_data.effective_sample_ct))) @@ out
          /\ last_row' = [last_row EXCEPT ![w] = <<bind_data.pairwise_vidx_a,
                                                   bind_data.pairwise_vidx_b>>]
          /\ Return(w, 1, gstate, lstate'[w])
          /\ UNCHANGED aborted
    /\ UNCHANGED <<call, claimed, query, host, io, res, bind_data, gstate, frame, phase_a>>

\* Windowed mode, the head of the outer while loop: leave when the batch is
\* full, resume the current anchor when in_window, else claim an anchor.
LdLoopHead(w) ==
    /\ pc[w] = "ld_loop"
    /\ IF ~lstate[w].initialized
       THEN /\ Return(w, 0, gstate, lstate[w])
            /\ UNCHANGED frame
       ELSE IF frame[w].rows_emitted >= Capacity
       THEN /\ Return(w, frame[w].rows_emitted, gstate, lstate[w])
            /\ UNCHANGED frame
       ELSE IF lstate[w].in_window
       THEN /\ frame' = [frame EXCEPT
                 ![w].j = lstate[w].next_j,
                 ![w].anchor_chrom =
                     IF @ = "" THEN GetChrom(bind_data.ds, lstate[w].anchor_idx)
                     ELSE @,
                 ![w].anchor_pos =
                     IF frame[w].anchor_chrom = ""
                     THEN GetPos(bind_data.ds, lstate[w].anchor_idx) ELSE @]
            /\ pc' = [pc EXCEPT ![w] = "ld_partner"]
            /\ UNCHANGED ret
       ELSE /\ pc' = [pc EXCEPT ![w] = "ld_claim"]
            /\ UNCHANGED <<frame, ret>>
    /\ UNCHANGED <<call, claimed, query, host, io, res, bind_data, gstate, lstate, aborted, emitted, out, tested, last_row,
                   phase_a>>

\* Mutant of SkipChrom: the skip loop does not move the partner index.
SkipChromStay(ds, j, end_idx, anchor_chrom) == j

\* Mutant of SkipChrom: everything up to the end of the range is skipped.
SkipChromToEnd(ds, j, end_idx, anchor_chrom) == end_idx

\* The first partner index at or after j that is off the anchor's chromosome
\* (or end_idx): the inner skip loop of the inter_chr branch.
RECURSIVE SkipChrom(_, _, _, _)
SkipChrom(ds, j, end_idx, anchor_chrom) ==
    IF j < end_idx /\ GetChrom(ds, j) = anchor_chrom
    THEN SkipChrom(ds, j + 1, end_idx, anchor_chrom)
    ELSE j

\* Mutant of BeyondWindow: the window boundary itself counted as outside.
BeyondWindowInclusive(dist, window_bp) == dist >= window_bp

\* if (dist > bind_data.window_bp)
BeyondWindow(dist, window_bp) == dist > window_bp

\* Mutant of ResumeAt: the interrupted partner is taken again.
ResumeAtSame(j) == j

\* next_j when a full batch interrupts the partner loop at partner j.
ResumeAt(j) == j + 1

\* One iteration of the partner loop of the current anchor.
LdPartner(w) ==
    /\ pc[w] = "ld_partner"
    /\ LET ds == bind_data.ds
           ai == lstate[w].anchor_idx
           j == frame[w].j
           end_idx == gstate.end_variant_idx
           same_chrom == GetChrom(ds, j) = frame[w].anchor_chrom
           dist == GetPos(ds, j) - frame[w].anchor_pos
           result == ComputeLdStats(ds, lstate[w].genovec_a, j,
                                    bind_data.effective_sample_ct)
           Exhausted == /\ lstate' = [lstate EXCEPT ![w].in_window = FALSE]
                        /\ pc' = [pc EXCEPT ![w] = "ld_claim"]
                        /\ UNCHANGED <<frame, aborted, emitted, out, tested, last_row, ret>>
       IN IF ~(j < end_idx)
          THEN Exhausted
          ELSE IF same_chrom /\ BeyondWindow(dist, bind_data.window_bp)
                          /\ ~bind_data.inter_chr
          THEN Exhausted
          ELSE IF same_chrom /\ BeyondWindow(dist, bind_data.window_bp)
          THEN /\ frame' = [frame EXCEPT ![w].j =
                               SkipChrom(ds, j, end_idx, frame[w].anchor_chrom)]
               /\ UNCHANGED <<lstate, pc, aborted, emitted, out, tested, last_row, ret>>
          ELSE IF ~same_chrom /\ ~bind_data.inter_chr
          THEN Exhausted
          ELSE \/ /\ Throw(w)
                  /\ UNCHANGED <<lstate, frame, emitted, out, tested, last_row, ret>>
               \/ /\ tested' = Bump(tested, <<lstate[w].genovec_a, j>>)
                  /\ UNCHANGED aborted
                  /\ IF Qualifies(result, bind_data.r2_threshold)
                     THEN /\ WriteRow(w, <<ai, j>>, LdRow(result))
                          /\ frame' = [frame EXCEPT ![w].rows_emitted = @ + 1,
                                                    ![w].j = @ + 1]
                          /\ IF frame[w].rows_emitted + 1 >= Capacity
                             THEN /\ lstate' = [lstate EXCEPT
                                                   ![w].next_j = ResumeAt(j)]
                                  /\ pc' = [pc EXCEPT ![w] = "ld_done"]
                             ELSE UNCHANGED <<lstate, pc>>
                     ELSE /\ frame' = [frame EXCEPT ![w].j = @ + 1]
                          /\ UNCHANGED <<lstate, pc, emitted, out, last_row, ret>>
    /\ UNCHANGED <<call, claimed, query, host, io, res, bind_data, gstate, phase_a>>

\* done: output.SetCardinality(rows_emitted) after the goto.
LdDone(w) ==
    /\ pc[w] = "ld_done"
    /\ Return(w, frame[w].rows_emitted, gstate, lstate[w])
    /\ UNCHANGED <<call, claimed, query, host, io, res, bind_data, gstate, lstate, frame, aborted, emitted, out, tested,
                   last_row, phase_a>>

\* Mutant of FirstPartner: the partner loop starts at the anchor itself.
FirstPartnerSelf(anchor_idx) == anchor_idx

\* lstate.next_j of a freshly claimed anchor.
FirstPartner(anchor_idx) == anchor_idx + 1

\* Claim a new anchor with fetch_add(1) and load its genotypes into
\* genovec_a (the read may fail).
LdClaimAnchor(w) ==
    /\ pc[w] = "ld_claim"
    /\ LET anchor_idx == gstate.next_anchor_idx
       IN /\ gstate' = [gstate EXCEPT !.next_anchor_idx = @ + 1]
          /\ IF anchor_idx >= gstate.end_variant_idx
             THEN /\ Return(w, frame[w].rows_emitted, gstate', lstate[w])
                  /\ UNCHANGED <<lstate, frame, aborted, claimed>>
             ELSE /\ claimed' = Bump(claimed, <<anchor_idx>>)
                  /\ \/ /\ Throw(w)
                        /\ UNCHANGED <<lstate, frame, ret>>
                     \/ /\ lstate' = [lstate EXCEPT
                                         ![w].genovec_a = anchor_idx,
                                         ![w].anchor_idx = anchor_idx,
                                         ![w].next_j = FirstPartner(anchor_idx),
                                         ![w].in_window = TRUE]
                        /\ frame' = [frame EXCEPT
                              ![w].anchor_chrom = GetChrom(bind_data.ds, anchor_idx),
                              ![w].anchor_pos = GetPos(bind_data.ds, anchor_idx)]
                        /\ pc' = [pc EXCEPT ![w] = "ld_loop"]
                        /\ UNCHANGED <<aborted, ret>>
    /\ UNCHANGED <<call, query, host, io, res, bind_data, emitted, out, tested, last_row, phase_a>>

\* ------------------------------------------------------------------------
\* plink_score
\* ------------------------------------------------------------------------

\* Mutant of MeanAlt: a missing call imputed as dosage zero.
MeanAltZero(sum_alt, non_missing_ct) == 0

\* mean_alt = sum_alt / non_missing_ct, in units of 1 / DosageScale.
MeanAlt(sum_alt, non_missing_ct) == (DosageScale * sum_alt) \div non_missing_ct

\* Mutant of ScoreVariant: without mean imputation a missing call still
\* counts two alleles.
ScoreVariantCountsMissing(g, sv) ==
    [g EXCEPT !.allele_cts = [s \in DOMAIN @ |-> @[s] + 2]]

\* One iteration of PerformScoring's loop (hard calls only).  A variant
\* with no non-missing call is skipped.  center: a monomorphic variant
\* (sd == 0.0) is skipped, else the non-missing samples get allele_ct += 2
\* (their standardised score involves a square root and is not modelled).
\* no_mean_imputation: the non-missing samples get their scored dosage and
\* allele_ct += 2.  Default: every sample gets its dosage, or the mean of
\* the non-missing ones, and allele_ct += 2.  With flip the scored dosage
\* is 2 - alt_dosage.
ScoreVariant(g, sv) ==
    LET sample_ct == bind_data.effective_sample_ct
        Dosage(s) == SubsetGeno(sv.variant_idx, s)
        Present(s) == Dosage(s) # 3
        NonMissing(s) == IF Present(s) THEN 1 ELSE 0
        Alt(s) == IF Present(s) THEN Dosage(s) ELSE 0
        non_missing_ct == SumTo(NonMissing, sample_ct)
        sum_alt == SumTo(Alt, sample_ct)
        mean_alt == MeanAlt(sum_alt, non_missing_ct)
        AltDosage(s) == IF Present(s) THEN DosageScale * Dosage(s) ELSE mean_alt
        Scored(d) == IF sv.flip THEN 2 * DosageScale - d ELSE d
    IN IF non_missing_ct = 0
       THEN g
       ELSE IF bind_data.center
       THEN IF sum_alt = 0 \/ sum_alt = 2 * non_missing_ct
            THEN g
            ELSE [g EXCEPT !.allele_cts =
                     [s \in DOMAIN @ |-> IF Present(s) THEN @[s] + 2 ELSE @[s]]]
       ELSE IF bind_data.no_mean_imputation
       THEN [g EXCEPT
               !.score_sums =
                   [s \in DOMAIN @ |-> IF Present(s)
                                       THEN @[s] + sv.weight * Scored(AltDosage(s))
                                       ELSE @[s]],
               !.named_allele_dosage_sums =
                   [s \in DOMAIN @ |-> IF Present(s)
                                       THEN @[s] + Scored(AltDosage(s))
                                       ELSE @[s]],
               !.allele_cts =
                   [s \in DOMAIN @ |-> IF Present(s) THEN @[s] + 2 ELSE @[s]]]
       ELSE [g EXCEPT
               !.score_sums =
                   [s \in DOMAIN @ |-> @[s] + sv.weight * Scored(AltDosage(s))],
               !.named_allele_dosage_sums =
                   [s \in DOMAIN @ |-> @[s] + Scored(AltDosage(s))],
               !.allele_cts = [s \in DOMAIN @ |-> @[s] + 2]]

\* if (!scoring_done.load(acquire))
ScoreCheck(w) ==
    /\ pc[w] = "score_check"
    /\ pc' = [pc EXCEPT ![w] = IF gstate.scoring_done THEN "score_emit"
                               ELSE "score_lock"]
    /\ UNCHANGED <<call, claimed, query, host, io, res, bind_data, gstate, lstate, frame, aborted, emitted, out, tested,
                   last_row, ret, phase_a>>

\* Mutant of ClaimSample: the cursor advanced by two.
ClaimSampleSkip(g) == [g EXCEPT !.next_sample_idx = @ + 2]

\* next_sample_idx.fetch_add(1): the global state after a worker claimed
\* the sample slot the cursor stood at.
ClaimSample(g) == [g EXCEPT !.next_sample_idx = @ + 1]

\* Mutant of ScoreLock: the block entered without taking the mutex.
ScoreLockNoWait(w) ==
    /\ pc[w] = "score_lock"
    /\ pc' = [pc EXCEPT ![w] = "score_locked"]
    /\ UNCHANGED <<call, claimed, query, host, io, res, bind_data, gstate, lstate, frame, aborted, emitted, out, tested,
                   last_row, ret, phase_a>>

\* std::lock_guard on scoring_mutex: blocks while another worker holds it.
ScoreLock(w) ==
    /\ pc[w] = "score_lock"
    /\ gstate.scoring_mutex = 0
    /\ gstate' = [gstate EXCEPT !.scoring_mutex = w]
    /\ pc' = [pc EXCEPT ![w] = "score_locked"]
    /\ UNCHANGED <<call, claimed, query, host, io, res, bind_data, lstate, frame, aborted, emitted, out, tested, last_row,
                   ret, phase_a>>

\* Under the lock: the second check of scoring_done, then either
\* PerformScoring starts or the flag is stored right away; a worker that
\* finds the flag set leaves the block (the lock_guard unlocks).
ScoreLocked(w) ==
    /\ pc[w] = "score_locked"
    /\ IF gstate.scoring_done
       THEN /\ gstate' = [gstate EXCEPT !.scoring_mutex = 0]
            /\ pc' = [pc EXCEPT ![w] = "score_emit"]
            /\ UNCHANGED <<frame, phase_a>>
       ELSE IF lstate[w].initialized /\ bind_data.scored_variants # << >>
       THEN /\ frame' = [frame EXCEPT ![w].sv = 1]
            /\ phase_a' = [phase_a EXCEPT !.starts = @ + 1,
                                          !.running = @ \cup {w}]
            /\ pc' = [pc EXCEPT ![w] = "scoring"]
            /\ UNCHANGED gstate
       ELSE /\ gstate' = [gstate EXCEPT !.scoring_done = TRUE,
                                        !.scoring_mutex = 0]
            /\ pc' = [pc EXCEPT ![w] = "score_emit"]
            /\ UNCHANGED <<frame, phase_a>>
    /\ UNCHANGED <<call, claimed, query, host, io, res, bind_data, lstate, aborted, emitted, out, tested, last_row, ret>>

\* PerformScoring, one scored variant per step: PgrGetD may fail (the
\* exception unwinds through the lock_guard); after the last variant the
\* flag is stored (release) and the lock is dropped.
Scoring(w) ==
    /\ pc[w] = "scoring"
    /\ LET k == frame[w].sv
           last == k = Len(bind_data.scored_variants)
           acc == ScoreVariant(gstate, bind_data.scored_variants[k])
       IN \/ /\ Throw(w)
             /\ gstate' = [gstate EXCEPT !.scoring_mutex =
                                             IF @ = w THEN 0 ELSE @]
             /\ phase_a' = [phase_a EXCEPT !.running = @ \ {w}]
             /\ UNCHANGED frame
          \/ /\ frame' = [frame EXCEPT ![w].sv = k + 1]
             /\ UNCHANGED aborted
             /\ IF last
                THEN /\ gstate' = [acc EXCEPT !.scoring_done = TRUE,
                                              !.scoring_mutex =
                                                  IF @ = w THEN 0 ELSE @]
                     /\ phase_a' = [phase_a EXCEPT !.completions = @ + 1,
                                                   !.running = @ \ {w}]
                     /\ pc' = [pc EXCEPT ![w] = "score_emit"]
                ELSE /\ gstate' = acc
                     /\ UNCHANGED <<pc, phase_a>>
    /\ UNCHANGED <<call, claimed, query, host, io, res, bind_data, lstate, emitted, out, tested, last_row, ret>>

\* The row of effective slot sidx: FID/IID of sample_output_order[sidx]
\* and the accumulators of slot sidx; score_avg = score_sum / allele_ct
\* (0.0 when allele_ct is 0) is kept as a fraction.
ScoreRow(sidx) ==
    [iid |-> GetIid(bind_data.sample_output_order[sidx + 1]),
     allele_ct |-> gstate.allele_cts[sidx],
     denom |-> gstate.allele_cts[sidx],
     named_allele_dosage_sum |-> gstate.named_allele_dosage_sums[sidx],
     score_sum |-> gstate.score_sums[sidx],
     score_avg |-> IF gstate.allele_cts[sidx] > 0
                   THEN <<gstate.score_sums[sidx], gstate.allele_cts[sidx]>>
                   ELSE <<0, 1>>]

\* Phase 2, one iteration of the emit loop: fetch_add(1) on next_sample_idx,
\* then one row for the claimed sample.
ScoreEmit(w) ==
    /\ pc[w] = "score_emit"
    /\ LET rows == frame[w].rows_emitted
           sidx == gstate.next_sample_idx
       IN IF rows >= Capacity
          THEN /\ Return(w, rows, gstate, lstate[w])
               /\ UNCHANGED <<gstate, frame, emitted, out, last_row>>
          ELSE /\ gstate' = ClaimSample(gstate)
               /\ IF sidx >= bind_data.effective_sample_ct
                  THEN /\ Return(w, rows, gstate', lstate[w])
                       /\ UNCHANGED <<frame, emitted, out, last_row>>
                  ELSE /\ WriteRow(w, <<sidx>>, ScoreRow(sidx))
                       /\ frame' = [frame EXCEPT ![w].rows_emitted = @ + 1]
                       /\ UNCHANGED pc
    /\ UNCHANGED <<call, claimed, query, host, io, res, bind_data, lstate, aborted, tested, phase_a>>

\* ------------------------------------------------------------------------
\* plink_missing, sample mode
\* ------------------------------------------------------------------------

\* Mutant of CountMissing: every sample counted, whatever its call.
CountMissingEveryCall(g, vidx) ==
    [g EXCEPT !.sample_missing_counts = [s \in DOMAIN @ |-> @[s] + 1]]

\* The set-bit loop over one variant's missingness bitmask.
CountMissing(g, vidx) ==
    [g EXCEPT !.sample_missing_counts =
        [s \in DOMAIN @ |-> IF SubsetGeno(vidx, s) = 3
                            THEN @[s] + 1 ELSE @[s]]]

\* if (!variant_scan_done && need_missingness && initialized): enter phase 1
\* at start_variant_idx, else go straight to the emit loop.
MissingSamplePhase1(w) ==
    /\ pc[w] = "ms_phase1"
    /\ IF ~gstate.variant_scan_done /\ gstate.need_genotypes /\ lstate[w].initialized
       THEN /\ frame' = [frame EXCEPT ![w].vidx = gstate.start_variant_idx]
            /\ phase_a' = [phase_a EXCEPT !.starts = @ + 1,
                                          !.running = @ \cup {w}]
            /\ pc' = [pc EXCEPT ![w] = "ms_scan"]
       ELSE /\ pc' = [pc EXCEPT ![w] = "ms_emit"]
            /\ UNCHANGED <<frame, phase_a>>
    /\ UNCHANGED <<call, claimed, query, host, io, res, bind_data, gstate, lstate, aborted, emitted, out, tested, last_row,
                   ret>>

\* Phase 1, one variant per step (PgrGetMissingness may fail); after the
\* last variant variant_scan_done = true.
MissingSampleScan(w) ==
    /\ pc[w] = "ms_scan"
    /\ IF frame[w].vidx < gstate.end_variant_idx
       THEN \/ /\ Throw(w)
               /\ phase_a' = [phase_a EXCEPT !.running = @ \ {w}]
               /\ UNCHANGED <<gstate, frame>>
            \/ /\ gstate' = CountMissing(gstate, frame[w].vidx)
               /\ frame' = [frame EXCEPT ![w].vidx = @ + 1]
               /\ UNCHANGED <<pc, aborted, phase_a>>
       ELSE /\ gstate' = [gstate EXCEPT !.variant_scan_done = TRUE]
            /\ phase_a' = [phase_a EXCEPT !.completions = @ + 1,
                                          !.running = @ \ {w}]
            /\ pc' = [pc EXCEPT ![w] = "ms_emit"]
            /\ UNCHANGED <<frame, aborted>>
    /\ UNCHANGED <<call, claimed, query, host, io, res, bind_data, lstate, emitted, out, tested, last_row, ret>>

\* The row of effective slot sidx: orig_idx is subset_original_indices[sidx]
\* with a subset and sidx without; missing_ct is 0 when no missingness
\* column is projected.
MissingSampleRow(sidx) ==
    LET missing_ct == IF gstate.need_genotypes
                      THEN gstate.sample_missing_counts[sidx] ELSE 0
        orig_idx == IF bind_data.has_sample_subset
                    THEN bind_data.sample_output_order[sidx + 1] ELSE sidx
    IN [iid |-> GetIid(orig_idx),
        missing_ct |-> missing_ct,
        obs_ct |-> gstate.total_variant_ct - missing_ct]

\* Phase 2, one iteration of the emit loop.
MissingSampleEmit(w) ==
    /\ pc[w] = "ms_emit"
    /\ LET rows == frame[w].rows_emitted
           sidx == gstate.next_sample_idx
       IN IF rows >= Capacity
          THEN /\ Return(w, rows, gstate, lstate[w])
               /\ UNCHANGED <<gstate, frame, emitted, out, last_row>>
          ELSE /\ gstate' = ClaimSample(gstate)
               /\ IF sidx >= bind_data.effective_sample_ct
                  THEN /\ Return(w, rows, gstate', lstate[w])
                       /\ UNCHANGED <<frame, emitted, out, last_row>>
                  ELSE /\ WriteRow(w, <<sidx>>, MissingSampleRow(sidx))
                       /\ frame' = [frame EXCEPT ![w].rows_emitted = @ + 1]
                       /\ UNCHANGED pc
    /\ UNCHANGED <<call, claimed, query, host, io, res, bind_data, lstate, aborted, tested, phase_a>>

\* ------------------------------------------------------------------------
\* read_pfile, tidy mode
\* ------------------------------------------------------------------------

\* The region's variants are the effective variant list, in index order.
\* Mutant of ResolveVariantIdx: every effective position resolves to the
\* first variant.
ResolveVariantIdxFirst(effective_pos) == gstate.start_variant_idx

ResolveVariantIdx(effective_pos) == gstate.start_variant_idx + effective_pos

\* Head of the outer loop: batch full, or all variants done (tidy_done), or
\* decode the current variant unless it is already loaded.
TidyLoop(w) ==
    /\ pc[w] = "tidy_loop"
    /\ LET l == lstate[w]
       IN IF l.tidy_done
          THEN /\ Return(w, 0, gstate, l)
               /\ UNCHANGED <<lstate, aborted>>
          ELSE IF frame[w].rows_emitted >= Capacity
          THEN /\ Return(w, frame[w].rows_emitted, gstate, l)
               /\ UNCHANGED <<lstate, aborted>>
          ELSE IF l.tidy_current_variant_pos >= gstate.total_variant_ct
          THEN /\ lstate' = [lstate EXCEPT ![w].tidy_done = TRUE]
               /\ Return(w, frame[w].rows_emitted, gstate, lstate'[w])
               /\ UNCHANGED aborted
          ELSE IF ~l.tidy_variant_loaded /\ gstate.need_genotypes /\ l.initialized
          THEN \/ /\ Throw(w)
                  /\ UNCHANGED <<lstate, ret>>
               \/ /\ lstate' = [lstate EXCEPT ![w].tidy_variant_loaded = TRUE]
                  /\ pc' = [pc EXCEPT ![w] = "tidy_emit"]
                  /\ UNCHANGED <<aborted, ret>>
          ELSE /\ pc' = [pc EXCEPT ![w] = "tidy_emit"]
               /\ UNCHANGED <<lstate, aborted, ret>>
    /\ UNCHANGED <<call, claimed, query, host, io, res, bind_data, gstate, frame, emitted, out, tested, last_row, phase_a>>

\* The inner loop, one sample row per step, then the advance to the next
\* variant once all its samples are out.
TidyEmit(w) ==
    /\ pc[w] = "tidy_emit"
    /\ LET l == lstate[w]
           output_sample_ct == bind_data.effective_sample_ct
       IN IF l.tidy_current_sample < output_sample_ct
             /\ frame[w].rows_emitted < Capacity
          THEN /\ WriteRow(w, <<ResolveVariantIdx(l.tidy_current_variant_pos),
                                l.tidy_current_sample>>,
                           [variant_idx |-> ResolveVariantIdx(l.tidy_current_variant_pos),
                            sample_idx |-> l.tidy_current_sample])
               /\ frame' = [frame EXCEPT ![w].rows_emitted = @ + 1]
               /\ lstate' = [lstate EXCEPT ![w].tidy_current_sample = @ + 1]
               /\ UNCHANGED pc
          ELSE /\ lstate' =
                    IF l.tidy_current_sample >= output_sample_ct
                    THEN [lstate EXCEPT ![w].tidy_current_variant_pos = @ + 1,
                                        ![w].tidy_current_sample = 0,
                                        ![w].tidy_variant_loaded = FALSE]
                    ELSE lstate
               /\ pc' = [pc EXCEPT ![w] = "tidy_loop"]
               /\ UNCHANGED <<frame, emitted, out, last_row, ret>>
    /\ UNCHANGED <<call, claimed, query, host, io, res, bind_data, gstate, aborted, tested, phase_a>>

\* ------------------------------------------------------------------------
\* Bind-time utilities taken on their own: the samples parameter, the region
\* parameter, the sample sidecar
\* ------------------------------------------------------------------------

MaxSamplesLen == 2

\* A 64-bit integer v is kept as <<hi, lo>> with v = hi * 2^31 + lo and
\* 0 <= lo < 2^31, so that the bits a narrowing cast drops are explicit.
Int64Negative(v) == v[1] < 0

\* static_cast<uint32_t> of a 64-bit integer: its low 32 bits, kept as
\* <<bit 31, bits 0..30>>.
CastToUint32(v) == <<v[1] % 2, v[2]>>

\* u >= n for a uint32 u and a count n below 2^31.
Uint32AtLeast(u, n) == u[1] = 1 \/ u[2] >= n

\* The values a samples list is given: in range, at and past the sample
\* count, negative, and past 32 bits with low bits below and at the count.
Int32SampleValues ==
    { <<0, 0>>, <<0, 1>>, <<0, 3>>, <<0, 4>>, <<0, 2147483647>>,
      <<-1, 2147483647>>, <<-1, 0>> }

Int64SampleValues ==
    Int32SampleValues \cup { <<1, 0>>, <<2, 1>>, <<2, 4>>, <<-2, 1>> }

RECURSIVE SeqsUpTo(_, _)
SeqsUpTo(S, n) ==
    IF n = 0 THEN { << >> }
    ELSE LET shorter == SeqsUpTo(S, n - 1)
         IN shorter \cup { Append(q, x) : q \in shorter, x \in S }

\* The loop over the children of an integer list: the first child that
\* fails the range test throws, every other one is pushed as a uint32.
RECURSIVE PushIndices(_, _, _)
PushIndices(children, raw_sample_ct, indices) ==
    IF children = << >>
    THEN [status |-> "ok", indices |-> indices]
    ELSE LET idx == Head(children)
         IN IF Int64Negative(idx) \/ Uint32AtLeast(CastToUint32(idx), raw_sample_ct)
            THEN [status |-> "out_of_range", indices |-> << >>]
            ELSE PushIndices(Tail(children), raw_sample_ct,
                             Append(indices, CastToUint32(idx)[2]))

HasDuplicate(indices) ==
    \E i, j \in DOMAIN indices : i < j /\ indices[i] = indices[j]

\* ResolveSampleIndices on a LIST(INTEGER) or LIST(BIGINT).
ResolveSampleIndices(children, raw_sample_ct) ==
    IF children = << >>
    THEN [status |-> "empty", indices |-> << >>]
    ELSE LET pushed == PushIndices(children, raw_sample_ct, << >>)
         IN IF pushed.status = "ok" /\ HasDuplicate(pushed.indices)
            THEN [status |-> "duplicate", indices |-> << >>]
            ELSE pushed

\* read_pfile's own copy of the same steps, which also sorts the indices.
PfileBindSamples(children, raw_sample_ct) ==
    LET resolved == ResolveSampleIndices(children, raw_sample_ct)
    IN [resolved EXCEPT !.indices = SortIndices(resolved.indices)]

SamplesCalls ==
    { [fn |-> f, done |-> FALSE, child_type |-> "INTEGER", children |-> c,
       raw_sample_ct |-> RawSampleCt(LayoutOneChrom @@ [geno |-> GenoA])] :
          f \in {"ResolveSampleIndices", "PfileBind"},
          c \in SeqsUpTo(Int32SampleValues, MaxSamplesLen) }
    \cup
    { [fn |-> f, done |-> FALSE, child_type |-> "BIGINT", children |-> c,
       raw_sample_ct |-> RawSampleCt(LayoutOneChrom @@ [geno |-> GenoA])] :
          f \in {"ResolveSampleIndices", "PfileBind"},
          c \in SeqsUpTo(Int64SampleValues, MaxSamplesLen) }

ResolveSampleIndicesCall ==
    /\ call.fn = "ResolveSampleIndices"
    /\ ~call.done
    /\ call' = [call EXCEPT !.done = TRUE] @@
               [result |-> ResolveSampleIndices(call.children, call.raw_sample_ct)]
    /\ UNCHANGED <<claimed, query, host, io, res, bind_data, gstate, lstate, frame, pc,
                   aborted, emitted, out, tested, last_row, ret, phase_a>>

PfileBindSamplesCall ==
    /\ call.fn = "PfileBind"
    /\ ~call.done
    /\ call' = [call EXCEPT !.done = TRUE] @@
               [result |-> PfileBindSamples(call.children, call.raw_sample_ct)]
    /\ UNCHANGED <<claimed, query, host, io, res, bind_data, gstate, lstate, frame, pc,
                   aborted, emitted, out, tested, last_row, ret, phase_a>>

\* Strings are kept as sequences of characters. find(): the index of the
\* first occurrence of c, counted from 1, or 0 for npos.
RECURSIVE Find(_, _)
Find(str, c) ==
    IF str = << >> THEN 0
    ELSE IF Head(str) = c THEN 1
    ELSE LET rest == Find(Tail(str), c) IN IF rest = 0 THEN 0 ELSE rest + 1

Digits == <<"0", "1", "2", "3", "4", "5", "6", "7", "8", "9">>
IsDigit(c) == \E d \in DOMAIN Digits : Digits[d] = c
DigitValue(c) == (CHOOSE d \in DOMAIN Digits : Digits[d] = c) - 1

RECURSIVE SkipSpaces(_)
SkipSpaces(str) ==
    IF str # << >> /\ Head(str) = " " THEN SkipSpaces(Tail(str)) ELSE str

RECURSIVE DigitCount(_)
DigitCount(str) ==
    IF str # << >> /\ IsDigit(Head(str)) THEN 1 + DigitCount(Tail(str)) ELSE 0

\* 10 * v + d for a non-negative 64-bit v, limb by limb.
MulAdd10(v, d) ==
    LET low == 10 * (v[2] % 65536) + d
        high == 10 * (v[2] \div 65536) + (low \div 65536)
    IN <<10 * v[1] + (high \div 32768), (high % 32768) * 65536 + (low % 65536)>>

RECURSIVE DigitsValue(_, _, _)
DigitsValue(str, n, acc) ==
    IF n = 0 THEN acc
    ELSE DigitsValue(Tail(str), n - 1, MulAdd10(acc, DigitValue(Head(str))))

\* std::strtol(str, &parse_end, 10): leading blanks and one sign are
\* skipped and the digits that follow are converted. converted is
\* parse_end != str, at_end is *parse_end == '\0'. A number of up to 18
\* digits fits a long; ERANGE is taken for every longer one.
Strtol(str) ==
    LET body == SkipSpaces(str)
        signed == body # << >> /\ Head(body) \in {"+", "-"}
        number == IF signed THEN Tail(body) ELSE body
        n == DigitCount(number)
        value == DigitsValue(number, n, <<0, 0>>)
    IN [converted |-> n > 0,
        at_end |-> n = Len(number),
        erange |-> n > 18,
        negative |-> signed /\ Head(body) = "-" /\ value # <<0, 0>>,
        value |-> value]

\* The test both parsers apply to a converted position.
InvalidPosition(parsed) ==
    ~parsed.converted \/ ~parsed.at_end \/ parsed.erange \/ parsed.negative

\* static_cast<int32_t> of a non-negative 64-bit integer: its low 32 bits
\* read as a signed number.
CastToInt32(v) ==
    IF v[1] % 2 = 0 THEN v[2] ELSE (v[2] - 2147483647) - 1

\* The scan of ParseRegion over the variant index, from variant i on.
RECURSIVE ScanRegion(_, _, _, _, _, _)
ScanRegion(ds, chrom, start_pos, end_pos, i, range) ==
    IF i >= RawVariantCt(ds) THEN range
    ELSE IF <<GetChrom(ds, i)>> # chrom
    THEN IF range.found_start THEN range
         ELSE ScanRegion(ds, chrom, start_pos, end_pos, i + 1, range)
    ELSE IF /\ GetPos(ds, i) >= CastToInt32(start_pos)
            /\ GetPos(ds, i) <= CastToInt32(end_pos)
    THEN ScanRegion(ds, chrom, start_pos, end_pos, i + 1,
                    [range EXCEPT !.start_idx = IF range.found_start THEN @ ELSE i,
                                  !.found_start = TRUE,
                                  !.end_idx = i + 1])
    ELSE IF range.found_start /\ GetPos(ds, i) > CastToInt32(end_pos)
    THEN range
    ELSE ScanRegion(ds, chrom, start_pos, end_pos, i + 1, range)

InvalidRegion == [status |-> "invalid_input"]

\* ParseRegion of the analysis functions: "chr:start-end" resolved to a
\* variant range.
ParseRegion(region_str, ds) ==
    LET colon == Find(region_str, ":")
        chrom == SubSeq(region_str, 1, colon - 1)
        range_part == SubSeq(region_str, colon + 1, Len(region_str))
        dash == Find(range_part, "-")
        start == Strtol(SubSeq(range_part, 1, dash - 1))
        end == Strtol(SubSeq(range_part, dash + 1, Len(range_part)))
        range == ScanRegion(ds, chrom, start.value, end.value, 0,
                            [start_idx |-> 0, end_idx |-> 0, found_start |-> FALSE])
    IN IF colon = 0 \/ colon = 1 THEN InvalidRegion
       ELSE IF dash = 0 THEN InvalidRegion
       ELSE IF InvalidPosition(start) THEN InvalidRegion
       ELSE IF InvalidPosition(end) THEN InvalidRegion
       ELSE [status |-> "ok",
             variant_range |-> [has_filter |-> TRUE, start_idx |-> range.start_idx,
                                end_idx |-> range.end_idx]]

\* a <= b for 64-bit integers.
Int64Leq(a, b) == a[1] < b[1] \/ (a[1] = b[1] /\ a[2] <= b[2])

\* ParseRegion of read_pfile: "chr", "chr:start-end" or "chr:start-" parsed
\* to a RegionFilter. open_end says that end is still INT64_MAX.
PfileParseRegion(region_str) ==
    LET colon == Find(region_str, ":")
        chrom == SubSeq(region_str, 1, colon - 1)
        range_str == SubSeq(region_str, colon + 1, Len(region_str))
        dash == Find(range_str, "-")
        start_str == SubSeq(range_str, 1, dash - 1)
        end_str == SubSeq(range_str, dash + 1, Len(range_str))
        start == Strtol(start_str)
        end == Strtol(end_str)
    IN IF colon = 0
       THEN [status |-> "ok",
             region |-> [chrom |-> region_str, start |-> <<0, 0>>,
                         end |-> <<0, 0>>, open_end |-> TRUE]]
       ELSE IF chrom = << >> THEN InvalidRegion
       ELSE IF dash = 0 THEN InvalidRegion
       ELSE IF start_str = << >> THEN InvalidRegion
       ELSE IF InvalidPosition(start) THEN InvalidRegion
       ELSE IF end_str # << >> /\ InvalidPosition(end) THEN InvalidRegion
       ELSE IF end_str # << >> /\ ~Int64Leq(start.value, end.value) THEN InvalidRegion
       ELSE [status |-> "ok",
             region |-> [chrom |-> chrom, start |-> start.value,
                         end |-> IF end_str = << >> THEN <<0, 0>> ELSE end.value,
                         open_end |-> end_str = << >>]]

\* The effective variant list PfileBind builds from an active region.
EffectiveVariantIndices(region, ds) ==
    SelectSeq([i \in 1..RawVariantCt(ds) |-> i - 1],
              LAMBDA vidx :
                  /\ <<GetChrom(ds, vidx)>> = region.chrom
                  /\ Int64Leq(region.start, <<0, GetPos(ds, vidx)>>)
                  /\ region.open_end \/ Int64Leq(<<0, GetPos(ds, vidx)>>, region.end))

\* read_pfile's handling of the region parameter at bind.
PfileBindRegion(region_str, ds) ==
    LET parsed == PfileParseRegion(region_str)
    IN IF parsed.status # "ok" THEN parsed
       ELSE [status |-> "ok", region |-> parsed.region,
             effective_variant_indices |->
                 EffectiveVariantIndices(parsed.region, ds)]

\* The region strings: the three documented forms, positions at and past
\* 2^31, a reversed interval and malformed strings. form, chrom, start, end
\* and open_end say what the text denotes.
Regions ==
    { [text |-> <<"1">>,
       form |-> "chr", chrom |-> "1", start |-> <<0, 0>>, end |-> <<0, 0>>, open_end |-> TRUE],
      [text |-> <<"2">>,
       form |-> "chr", chrom |-> "2", start |-> <<0, 0>>, end |-> <<0, 0>>, open_end |-> TRUE],
      [text |-> <<"1", ":", "1", "0", "0", "0", "-", "2", "0", "0", "0">>,
       form |-> "chr:start-end", chrom |-> "1", start |-> <<0, 1000>>, end |-> <<0, 2000>>, open_end |-> FALSE],
      [text |-> <<"1", ":", "1", "0", "0", "1", "-", "2", "4", "9", "9">>,
       form |-> "chr:start-end", chrom |-> "1", start |-> <<0, 1001>>, end |-> <<0, 2499>>, open_end |-> FALSE],
      [text |-> <<"1", ":", "3", "0", "0", "0", "-", "4", "0", "0", "0">>,
       form |-> "chr:start-end", chrom |-> "1", start |-> <<0, 3000>>, end |-> <<0, 4000>>, open_end |-> FALSE],
      [text |-> <<"3", ":", "1", "-", "1", "0", "0">>,
       form |-> "chr:start-end", chrom |-> "3", start |-> <<0, 1>>, end |-> <<0, 100>>, open_end |-> FALSE],
      [text |-> <<"2", ":", "1", "-", "5", "0", "0", "0">>,
       form |-> "chr:start-end", chrom |-> "2", start |-> <<0, 1>>, end |-> <<0, 5000>>, open_end |-> FALSE],
      [text |-> <<"1", ":", "2", "0", "0", "0", "-">>,
       form |-> "chr:start-", chrom |-> "1", start |-> <<0, 2000>>, end |-> <<0, 0>>, open_end |-> TRUE],
      [text |-> <<"2", ":", "6", "0", "0", "-">>,
       form |-> "chr:start-", chrom |-> "2", start |-> <<0, 600>>, end |-> <<0, 0>>, open_end |-> TRUE],
      [text |-> <<"1", ":", "1", "-", "3", "0", "0", "0", "0", "0", "0", "0", "0", "0">>,
       form |-> "chr:start-end", chrom |-> "1", start |-> <<0, 1>>, end |-> <<1, 852516352>>, open_end |-> FALSE],
      [text |-> <<"1", ":", "4", "2", "9", "4", "9", "6", "7", "2", "9", "6", "-", "4", "2", "9", "4", "9", "6", "8", "2", "9", "6">>,
       form |-> "chr:start-end", chrom |-> "1", start |-> <<2, 0>>, end |-> <<2, 1000>>, open_end |-> FALSE],
      [text |-> <<"1", ":", "2", "5", "0", "0", "-", "1", "0", "0", "0">>,
       form |-> "reversed", chrom |-> "1", start |-> <<0, 2500>>, end |-> <<0, 1000>>, open_end |-> FALSE],
      [text |-> <<"1", ":", "1", "0", "0">>,
       form |-> "malformed", chrom |-> "1", start |-> <<0, 0>>, end |-> <<0, 0>>, open_end |-> FALSE],
      [text |-> <<":", "1", "-", "2">>,
       form |-> "malformed", chrom |-> "", start |-> <<0, 0>>, end |-> <<0, 0>>, open_end |-> FALSE],
      [text |-> <<"1", ":", "a", "-", "5">>,
       form |-> "malformed", chrom |-> "1", start |-> <<0, 0>>, end |-> <<0, 0>>, open_end |-> FALSE],
      [text |-> <<"1", ":", "1", "-", "5", "x">>,
       form |-> "malformed", chrom |-> "1", start |-> <<0, 0>>, end |-> <<0, 0>>, open_end |-> FALSE],
      [text |-> <<"1", ":", "1", "-", "-", "5">>,
       form |-> "malformed", chrom |-> "1", start |-> <<0, 0>>, end |-> <<0, 0>>, open_end |-> FALSE] }

RegionCalls ==
    { [fn |-> f, done |-> FALSE, region |-> r, ds |-> l @@ [geno |-> GenoA]] :
          f \in {"ParseRegion", "PfileParseRegion"}, r \in Regions,
          l \in {LayoutOneChrom, LayoutTwoChrom} }

ParseRegionCall ==
    /\ call.fn = "ParseRegion"
    /\ ~call.done
    /\ call' = [call EXCEPT !.done = TRUE] @@
               [result |-> ParseRegion(call.region.text, call.ds)]
    /\ UNCHANGED <<claimed, query, host, io, res, bind_data, gstate, lstate, frame, pc,
                   aborted, emitted, out, tested, last_row, ret, phase_a>>

PfileParseRegionCall ==
    /\ call.fn = "PfileParseRegion"
    /\ ~call.done
    /\ call' = [call EXCEPT !.done = TRUE] @@
               [result |-> PfileBindRegion(call.region.text, call.ds)]
    /\ UNCHANGED <<claimed, query, host, io, res, bind_data, gstate, lstate, frame, pc,
                   aborted, emitted, out, tested, last_row, ret, phase_a>>

\* A line of a sample sidecar is kept as a sequence of tokens: the
\* separators "\t" and " ", the header mark "#", and words.
\* SplitTabLine: the fields between tabs; a blank stays inside its field.
RECURSIVE SplitTabLine(_)
SplitTabLine(line) ==
    LET pos == Find(line, "\t")
    IN IF pos = 0 THEN <<line>>
       ELSE <<SubSeq(line, 1, pos - 1)>> \o
            SplitTabLine(SubSeq(line, pos + 1, Len(line)))

\* PfileSplitWhitespaceLine: the words between runs of blanks and tabs.
RECURSIVE PfileSplitWhitespaceLine(_)
PfileSplitWhitespaceLine(line) ==
    IF line = << >> THEN << >>
    ELSE IF Head(line) \in {" ", "\t"} THEN PfileSplitWhitespaceLine(Tail(line))
    ELSE LET blank == IF Find(line, " ") = 0 THEN Len(line) + 1 ELSE Find(line, " ")
             tab == IF Find(line, "\t") = 0 THEN Len(line) + 1 ELSE Find(line, "\t")
             stop == Min(blank, tab)
         IN <<SubSeq(line, 1, stop - 1)>> \o
            PfileSplitWhitespaceLine(SubSeq(line, stop, Len(line)))

FAM_COLUMN_NAMES ==
    << <<"FID">>, <<"IID">>, <<"PAT">>, <<"MAT">>, <<"SEX">>, <<"PHENO1">> >>

IoError == [status |-> "io_error"]

\* ParsePsamHeader: a first line that starts with '#' is a .psam header
\* and must name FID or IID first; any other first line makes the file a
\* .fam with the fixed six columns.
ParsePsamHeader(lines) ==
    IF lines = << >> \/ lines[1] = << >> THEN IoError
    ELSE IF Head(lines[1]) = "#"
    THEN LET fields == SplitTabLine(Tail(lines[1]))
         IN IF fields[1] = <<"FID">>
            THEN [status |-> "ok", format |-> "PSAM_FID", column_names |-> fields]
            ELSE IF fields[1] = <<"IID">>
            THEN [status |-> "ok", format |-> "PSAM_IID", column_names |-> fields]
            ELSE IoError
    ELSE [status |-> "ok", format |-> "FAM", column_names |-> FAM_COLUMN_NAMES]

\* The lines that hold samples: all but the header, blank ones skipped.
DataLines(lines, format) ==
    SelectSeq(IF format = "FAM" THEN lines ELSE Tail(lines),
              LAMBDA line : line # << >>)

\* LoadSampleInfo: every data line is split on tabs and the field of the
\* IID column is the sample's id; a line with too few fields throws.
LoadSampleInfo(lines) ==
    LET header == ParsePsamHeader(lines)
    IN IF header.status # "ok" THEN IoError
       ELSE LET named == { i \in DOMAIN header.column_names :
                              header.column_names[i] = <<"IID">> }
                iid_idx == CHOOSE i \in named : \A j \in named : j <= i
                data == DataLines(lines, header.format)
                fields == [i \in DOMAIN data |-> SplitTabLine(data[i])]
            IN IF named = {} THEN IoError
               ELSE IF \E i \in DOMAIN data : iid_idx > Len(fields[i]) THEN IoError
               ELSE [status |-> "ok",
                     iids |-> [i \in DOMAIN data |-> fields[i][iid_idx]],
                     sample_ct |-> Len(data)]

\* PsamInitGlobal of read_psam: every data line is split on tabs and must
\* have as many fields as the schema has columns.
PsamInitGlobal(lines) ==
    LET header == ParsePsamHeader(lines)
    IN IF header.status # "ok" THEN IoError
       ELSE LET data == DataLines(lines, header.format)
                rows == [i \in DOMAIN data |-> SplitTabLine(data[i])]
            IN IF \E i \in DOMAIN rows : Len(rows[i]) # Len(header.column_names)
               THEN IoError
               ELSE [status |-> "ok", rows |-> rows]

\* LoadPfileSampleMetadata of read_pfile's tidy mode: a .fam line is split
\* on blanks and tabs, a .psam line on tabs.
LoadPfileSampleMetadata(lines) ==
    LET header == ParsePsamHeader(lines)
    IN IF header.status # "ok" THEN IoError
       ELSE LET data == DataLines(lines, header.format)
            IN [status |-> "ok",
                rows |-> [i \in DOMAIN data |->
                             IF header.format = "FAM"
                             THEN PfileSplitWhitespaceLine(data[i])
                             ELSE SplitTabLine(data[i])]]

\* One .fam line of sample iid with its six fields separated by sep.
FamLine(iid, sep) ==
    <<"F1", sep, iid, sep, "0", sep, "0", sep, "1", sep, "-9">>

\* Sample sidecars: .fam files of one and two samples, each line separated
\* by tabs or by blanks, a .psam file, and an empty file.
SampleFiles ==
    { [format |-> "fam", iids |-> <<"S1">>, lines |-> <<FamLine("S1", a)>>] :
         a \in {"\t", " "} }
    \cup
    { [format |-> "fam", iids |-> <<"S1", "S2">>,
       lines |-> <<FamLine("S1", a), FamLine("S2", b)>>] :
         a \in {"\t", " "}, b \in {"\t", " "} }
    \cup
    { [format |-> "psam", iids |-> <<"S1", "S2">>,
       lines |-> << <<"#", "IID", "\t", "SEX">>, <<"S1", "\t", "1">>,
                    <<"S2", "\t", "2">> >>],
      [format |-> "psam", iids |-> <<"S1">>,
       lines |-> << <<"#", "FID", "\t", "IID">>, <<"F1", "\t", "S1">> >>],
      [format |-> "empty", iids |-> << >>, lines |-> << >>] }

SampleFileCalls ==
    { [fn |-> f, done |-> FALSE, file |-> x] :
         f \in {"LoadSampleInfo", "PsamInitGlobal", "LoadPfileSampleMetadata"},
         x \in SampleFiles }

LoadSampleInfoCall ==
    /\ call.fn = "LoadSampleInfo"
    /\ ~call.done
    /\ call' = [call EXCEPT !.done = TRUE] @@
               [result |-> LoadSampleInfo(call.file.lines)]
    /\ UNCHANGED <<claimed, query, host, io, res, bind_data, gstate, lstate, frame, pc,
                   aborted, emitted, out, tested, last_row, ret, phase_a>>

PsamInitGlobalCall ==
    /\ call.fn = "PsamInitGlobal"
    /\ ~call.done
    /\ call' = [call EXCEPT !.done = TRUE] @@
               [result |-> PsamInitGlobal(call.file.lines)]
    /\ UNCHANGED <<claimed, query, host, io, res, bind_data, gstate, lstate, frame, pc,
                   aborted, emitted, out, tested, last_row, ret, phase_a>>

LoadPfileSampleMetadataCall ==
    /\ call.fn = "LoadPfileSampleMetadata"
    /\ ~call.done
    /\ call' = [call EXCEPT !.done = TRUE] @@
               [result |-> LoadPfileSampleMetadata(call.file.lines)]
    /\ UNCHANGED <<claimed, query, host, io, res, bind_data, gstate, lstate, frame, pc,
                   aborted, emitted, out, tested, last_row, ret, phase_a>>

UtilityCalls == SamplesCalls \cup RegionCalls \cup SampleFileCalls

\* The host with no query under way, about to run one utility.
InitUtilities ==
    /\ call \in UtilityCalls
    /\ query = [params |-> CHOOSE b \in BindInputs : Relevant(b),
                honour_max_threads |-> TRUE]
    /\ BeforeBind

NextUtilities ==
    \/ ResolveSampleIndicesCall
    \/ PfileBindSamplesCall
    \/ ParseRegionCall
    \/ PfileParseRegionCall
    \/ LoadSampleInfoCall
    \/ PsamInitGlobalCall
    \/ LoadPfileSampleMetadataCall

SpecUtilities == InitUtilities /\ [][NextUtilities]_vars

\* ------------------------------------------------------------------------

Next ==
    \/ BindQuery
    \/ InitGlobalState
    \/ \E w \in Workers :
        \/ InitLocal(w)
        \/ DestroyLocal(w)
        \/ BeginScan(w)
        \/ VariantClaim(w)
        \/ VariantEmit(w)
        \/ LdPairwiseClaim(w)
        \/ LdPairwiseEmit(w)
        \/ LdLoopHead(w)
        \/ LdPartner(w)
        \/ LdDone(w)
        \/ LdClaimAnchor(w)
        \/ ScoreCheck(w)
        \/ ScoreLock(w)
        \/ ScoreLocked(w)
        \/ Scoring(w)
        \/ ScoreEmit(w)
        \/ MissingSamplePhase1(w)
        \/ MissingSampleScan(w)
        \/ MissingSampleEmit(w)
        \/ TidyLoop(w)
        \/ TidyEmit(w)

Spec == Init /\ [][Next]_vars

SpecAnyWorkers == InitAnyWorkers /\ [][Next]_vars

\* The host keeps calling scan on a worker whose last batch was not empty
\* and a thread that can take a step takes one: the query never stands
\* still while some step is possible.
SpecFair == Init /\ [][Next]_vars /\ WF_vars(Next)

\* ------------------------------------------------------------------------
\* Properties
\* ------------------------------------------------------------------------

\* Every worker the host started has returned its empty batch and no
\* exception aborted the query.
QueryDone == ~aborted /\ \A w \in Workers : pc[w] \in {"finished", "unused"}

RangeVariants == gstate.start_variant_idx .. (gstate.end_variant_idx - 1)

Rows(w) == frame[w].rows_emitted

\* C1: in the variant-oriented kernels (frequency, HWE, variant-mode
\* missingness) no row is written twice, every row is a variant of
\* [start_idx, end_idx), and when the query is over every variant of the
\* range has been written exactly once, so the row count is end_idx - start_idx.
C1_ExactlyOnce ==
    bind_data.kernel \in VariantKernels =>
        /\ \A k \in DOMAIN emitted : emitted[k] = 1 /\ k[1] \in RangeVariants
        /\ QueryDone =>
              /\ \A v \in RangeVariants : Count(emitted, <<v>>) = 1
              /\ Cardinality(DOMAIN emitted) =
                     gstate.end_variant_idx - gstate.start_variant_idx

C1_Witness ==
    /\ bind_data.kernel \in VariantKernels
    /\ QueryDone
    /\ gstate.end_variant_idx - gstate.start_variant_idx >= 3
    /\ \A w \in Workers : last_row[w] # << >>

\* C2: windowed LD.  A worker that is between scan calls with in_window set
\* was interrupted by a full batch: its genovec_a still holds the anchor and
\* next_j is the partner right after the one of its last row.  No pair is
\* examined twice, no pair is emitted twice, and every examined pair that
\* qualifies has been emitted.
C2_Resume ==
    bind_data.kernel = "ld_windowed" =>
        /\ \A w \in Workers :
              (pc[w] = "idle" /\ lstate[w].in_window) =>
                  /\ lstate[w].genovec_a = lstate[w].anchor_idx
                  /\ ret[w].rows = Capacity
                  /\ last_row[w] = <<lstate[w].anchor_idx, lstate[w].next_j - 1>>
        /\ \A w \in Workers :
              pc[w] = "ld_partner" =>
                  /\ lstate[w].in_window
                  /\ lstate[w].genovec_a = lstate[w].anchor_idx
                  /\ frame[w].j >= lstate[w].next_j
        /\ \A k \in DOMAIN tested : tested[k] = 1
        /\ \A k \in DOMAIN emitted : emitted[k] = 1
        /\ \A k \in DOMAIN tested :
              Qualifies(ComputeLdStats(bind_data.ds, k[1], k[2],
                                       bind_data.effective_sample_ct),
                        bind_data.r2_threshold)
                  => k \in DOMAIN emitted

\* A second call has resumed an interrupted anchor that still had partners
\* to examine, and has examined the next one.
C2_Witness ==
    \E w \in Workers :
        /\ bind_data.kernel = "ld_windowed"
        /\ pc[w] = "ld_partner"
        /\ ret[w].calls >= 1
        /\ ret[w].rows = Capacity
        /\ last_row[w] = <<lstate[w].anchor_idx, lstate[w].next_j - 1>>
        /\ frame[w].j = lstate[w].next_j + 1
        /\ <<lstate[w].anchor_idx, lstate[w].next_j>> \in DOMAIN tested

C4_AsStated ==
    bind_data.kernel = "missing_sample" =>
        /\ \A w \in phase_a.running : gstate.scoring_mutex = w
        /\ Cardinality(phase_a.running) <= 1
        /\ phase_a.starts <= 1
        /\ emitted # << >> => gstate.variant_scan_done

\* C4 as amended: Phase A of sample-mode missingness is serialised by
\* MaxThreads() = 1 (no mutex is taken): it is run by at most one worker, at
\* most once; variant_scan_done is set only after the accumulation has
\* finished; and when a missingness column is projected no sample row is
\* written before the flag is set (with none projected Phase A is skipped
\* and the flag stays unset).
C4_Serialised ==
    bind_data.kernel = "missing_sample" =>
        /\ Cardinality(phase_a.running) <= 1
        /\ phase_a.starts <= 1
        /\ phase_a.completions <= 1
        /\ gstate.variant_scan_done =>
              phase_a.running = {} /\ phase_a.completions = 1
        /\ (gstate.need_genotypes /\ emitted # << >>) => gstate.variant_scan_done
        /\ ~gstate.need_genotypes =>
              phase_a.starts = 0 /\ ~gstate.variant_scan_done

C4_Witness ==
    /\ bind_data.kernel = "missing_sample"
    /\ gstate.need_genotypes
    /\ gstate.total_variant_ct >= 3
    /\ phase_a.completions = 1
    /\ QueryDone
    /\ Cardinality(DOMAIN emitted) = bind_data.effective_sample_ct

\* C5: no scan call of any kernel writes a row at or beyond the capacity
\* of the output batch, and no call returns more rows than the capacity.
C5_Capacity ==
    \A w \in Workers :
        /\ ~ret[w].overflow
        /\ Rows(w) <= Capacity
        /\ ret[w].rows <= Capacity

\* A claim cut down to the room left in the batch (less than BATCH_SIZE,
\* with variants still unclaimed), about to write the last row of the batch.
C5_Witness ==
    \E w \in Workers :
        /\ bind_data.kernel \in VariantKernels
        /\ pc[w] = "emit"
        /\ Rows(w) = Capacity - 1
        /\ Rows(w) + BatchSize > Capacity
        /\ frame[w].batch_end = gstate.next_variant_idx
        /\ gstate.next_variant_idx < gstate.end_variant_idx

\* C6: a scan call that returns fewer rows than the capacity (zero rows
\* included) leaves that worker nothing to do: nothing unclaimed on the
\* cursor, and in windowed LD no anchor with partners still to examine.
C6_ReturnsFullOrExhausted ==
    \A w \in Workers :
        (ret[w].calls > 0 /\ ret[w].rows < Capacity) => ~ret[w].work_left

C6_Witness ==
    \E w \in Workers :
        /\ bind_data.kernel \in VariantKernels
        /\ pc[w] = "finished"
        /\ ret[w].calls >= 2
        /\ ret[w].rows = 0
        /\ gstate.end_variant_idx - gstate.start_variant_idx >= 3

\* C7: in the variant-oriented and the sample-oriented kernels the rows a
\* worker writes, over all of its scan calls, are strictly ascending in the
\* variant index (the sample slot), whatever the other workers do.
C7_AscendingPerWorker ==
    bind_data.kernel \in VariantKernels \cup SampleKernels =>
        \A w \in Workers : ret[w].ascending

\* Two workers have both written rows, one of them in its second call.
C7_Witness ==
    \E w \in Workers :
        /\ bind_data.kernel \in VariantKernels
        /\ ret[w].calls >= 1
        /\ Rows(w) >= 1
        /\ \E v \in Workers \ {w} : last_row[v] # << >> /\ last_row[v][1] < last_row[w][1]

PairwiseKey == <<bind_data.pairwise_vidx_a, bind_data.pairwise_vidx_b>>

\* C8: pairwise LD, any number of workers: the only row ever written is the
\* pair row, it is written at most once, exactly once when the query is
\* over, and a worker's calls after its first return zero rows.
C8_OneRow ==
    bind_data.kernel = "ld_pairwise" =>
        /\ DOMAIN emitted \subseteq {PairwiseKey}
        /\ Count(emitted, PairwiseKey) <= 1
        /\ QueryDone => Count(emitted, PairwiseKey) = 1
        /\ \A w \in Workers : ret[w].calls >= 2 => ret[w].rows = 0
        /\ \A w \in Workers :
              (ret[w].calls >= 1 /\ last_row[w] = << >>) => ret[w].rows = 0

\* One worker got the row, another worker's call found the flag set.
C8_Witness ==
    /\ bind_data.kernel = "ld_pairwise"
    /\ QueryDone
    /\ \E w \in Workers : last_row[w] = PairwiseKey /\ ret[w].calls = 2
    /\ \E w \in Workers : last_row[w] = << >> /\ ret[w].calls = 1

\* The pairs a < b of the range on one chromosome, at most window_bp apart.
InWindowPairs ==
    { p \in RangeVariants \X RangeVariants :
        /\ p[1] < p[2]
        /\ GetChrom(bind_data.ds, p[1]) = GetChrom(bind_data.ds, p[2])
        /\ GetPos(bind_data.ds, p[2]) - GetPos(bind_data.ds, p[1])
               <= bind_data.window_bp }

QualifyingPair(p) ==
    Qualifies(ComputeLdStats(bind_data.ds, p[1], p[2], bind_data.effective_sample_ct),
              bind_data.r2_threshold)

\* C9: windowed LD with inter_chr = false (sidecar chromosome-contiguous
\* and position-sorted).  Only same-chromosome pairs a < b of the range
\* within window_bp are tested, and of those only the ones with a valid
\* result and r2 >= threshold are reported; when the query is over all of
\* the former have been tested and all of the latter reported.
C9_WindowedPairs ==
    (bind_data.kernel = "ld_windowed" /\ ~bind_data.inter_chr) =>
        /\ DOMAIN tested \subseteq InWindowPairs
        /\ DOMAIN emitted \subseteq {p \in InWindowPairs : QualifyingPair(p)}
        /\ QueryDone =>
              /\ InWindowPairs \subseteq DOMAIN tested
              /\ {p \in InWindowPairs : QualifyingPair(p)} \subseteq DOMAIN emitted

\* A finished query with a pair exactly window_bp apart reported, a pair
\* tested and not reported, and a same-chromosome pair beyond the window.
C9_Witness ==
    /\ bind_data.kernel = "ld_windowed"
    /\ ~bind_data.inter_chr
    /\ bind_data.window_bp > 0
    /\ QueryDone
    /\ \E p \in DOMAIN emitted :
          GetPos(bind_data.ds, p[2]) - GetPos(bind_data.ds, p[1]) = bind_data.window_bp
    /\ DOMAIN tested # DOMAIN emitted
    /\ \E a, b \in RangeVariants :
          /\ a < b
          /\ GetChrom(bind_data.ds, a) = GetChrom(bind_data.ds, b)
          /\ <<a, b>> \notin InWindowPairs

SameChromPair(p) == GetChrom(bind_data.ds, p[1]) = GetChrom(bind_data.ds, p[2])
SamePosPair(p) == GetPos(bind_data.ds, p[1]) = GetPos(bind_data.ds, p[2])

\* C10 as stated: with window_kb = 0 no reported pair has both variants on
\* the same chromosome.
C10_AsStated ==
    (bind_data.kernel = "ld_windowed" /\ bind_data.window_bp = 0) =>
        \A p \in DOMAIN emitted : ~SameChromPair(p)

\* C10 as amended: with window_kb = 0 (position-sorted sidecar) a reported
\* same-chromosome pair has both variants at the same position, such
\* co-located pairs of the range are all reported when they qualify, and
\* cross-chromosome pairs are reported only with inter_chr = true.
C10_ZeroWindow ==
    (bind_data.kernel = "ld_windowed" /\ bind_data.window_bp = 0) =>
        /\ \A p \in DOMAIN emitted : SameChromPair(p) => SamePosPair(p)
        /\ ~bind_data.inter_chr => \A p \in DOMAIN emitted : SameChromPair(p)
        /\ QueryDone =>
              \A p \in RangeVariants \X RangeVariants :
                  (p[1] < p[2] /\ SameChromPair(p) /\ SamePosPair(p)
                       /\ QualifyingPair(p)) => p \in DOMAIN emitted

C10_Witness ==
    /\ bind_data.kernel = "ld_windowed"
    /\ bind_data.window_bp = 0
    /\ ~bind_data.inter_chr
    /\ QueryDone
    /\ \E p \in DOMAIN emitted : SameChromPair(p) /\ SamePosPair(p)

\* The pairs a < b of the range that inter_chr = true has tested: partners
\* on another chromosome, and same-chromosome partners within window_bp.
InterChrPairs ==
    { p \in RangeVariants \X RangeVariants :
        /\ p[1] < p[2]
        /\ \/ ~SameChromPair(p)
           \/ GetPos(bind_data.ds, p[2]) - GetPos(bind_data.ds, p[1])
                  <= bind_data.window_bp }

\* C11: windowed LD with inter_chr = true (sidecar chromosome-contiguous and
\* position-sorted).  Same-chromosome partners farther than window_bp from
\* the anchor are never tested or reported; when the query is over every
\* in-range partner on another chromosome has been tested whatever its
\* distance, also behind a skipped chromosome block, and of the tested pairs
\* exactly the qualifying ones have been reported.
C11_InterChr ==
    (bind_data.kernel = "ld_windowed" /\ bind_data.inter_chr) =>
        /\ DOMAIN tested \subseteq InterChrPairs
        /\ DOMAIN emitted \subseteq {p \in InterChrPairs : QualifyingPair(p)}
        /\ QueryDone =>
              /\ InterChrPairs \subseteq DOMAIN tested
              /\ {p \in InterChrPairs : QualifyingPair(p)} \subseteq DOMAIN emitted

\* A finished query in which an anchor's same-chromosome partner lay beyond
\* the window and was skipped, and the partners of the next chromosome
\* block were tested at a distance the window would not allow.
C11_Witness ==
    /\ bind_data.kernel = "ld_windowed"
    /\ bind_data.inter_chr
    /\ QueryDone
    /\ \E a, b, c \in RangeVariants :
          /\ a < b /\ b < c
          /\ SameChromPair(<<a, b>>) /\ ~SameChromPair(<<a, c>>)
          /\ <<a, b>> \notin DOMAIN tested
          /\ <<a, c>> \in DOMAIN emitted
          /\ GetPos(bind_data.ds, c) - GetPos(bind_data.ds, a) > bind_data.window_bp

\* The effective sample count of the query as the caller states it: the
\* size of the `samples` list when given, else the raw sample count.
EffectiveSampleCt ==
    IF query.params.samples.given THEN Len(query.params.samples.indices)
    ELSE RawSampleCt(query.params.ds)

\* C12: in the sample-oriented kernels (sample-mode missingness, score) no
\* row is written twice, every row is an effective slot of
\* [0, effective_sample_ct), and when the query is over every slot has been
\* written exactly once, so the row count is the effective sample count
\* (the subset size when `samples` is given, else the raw sample count).
C12_SampleSlotsOnce ==
    bind_data.kernel \in SampleKernels =>
        /\ \A k \in DOMAIN emitted :
              emitted[k] = 1 /\ k[1] \in 0..(EffectiveSampleCt - 1)
        /\ QueryDone =>
              /\ \A s \in 0..(EffectiveSampleCt - 1) : Count(emitted, <<s>>) = 1
              /\ Cardinality(DOMAIN emitted) = EffectiveSampleCt

\* A finished sample-kernel query over a two-sample subset of the four
\* samples in which two workers each wrote a row.
C12_Witness ==
    /\ bind_data.kernel \in SampleKernels
    /\ QueryDone
    /\ query.params.samples.given
    /\ Cardinality(DOMAIN emitted) = 2
    /\ \E w1, w2 \in Workers : w1 # w2 /\ last_row[w1] # << >> /\ last_row[w2] # << >>

\* The original sample indices the caller selected.
Selected ==
    IF query.params.samples.given
    THEN {query.params.samples.indices[i] : i \in DOMAIN query.params.samples.indices}
    ELSE 0..(RawSampleCt(query.params.ds) - 1)

\* The s-th smallest selected original sample index (s counted from 0).
NthSelected(s) ==
    CHOOSE x \in Selected : Cardinality({y \in Selected : y < x}) = s

\* The original sample whose identifier a row carries.
SampleOf(row) == CHOOSE i \in 0..(RawSampleCt(query.params.ds) - 1) : GetIid(i) = row.iid

\* The number of variants of the range at which original sample x has no call.
MissingCalls(x) ==
    Cardinality({v \in RangeVariants : Geno(query.params.ds, v, x) = 3})

\* The score accumulators of original sample x, from the genotype matrix,
\* over the scored variants bind kept: a variant no selected sample has a
\* call for is skipped; with centering a variant monomorphic among the
\* selected samples is skipped too and only present calls count alleles;
\* without mean imputation only present calls count; by default a missing
\* call counts as the mean dosage of the selected samples.  Dosage sums are
\* in units of 1 / DosageScale.
ExpectedScore(x) ==
    LET ds == query.params.ds
        Called(v) == {y \in Selected : Geno(ds, v, y) # 3}
        AltSum(v) == SumTo(LAMBDA y : IF y \in Called(v) THEN Geno(ds, v, y) ELSE 0,
                           RawSampleCt(ds))
        Skipped(v) ==
            \/ Called(v) = {}
            \/ /\ query.params.center
               /\ AltSum(v) \in {0, 2 * Cardinality(Called(v))}
        Counts(v) ==
            /\ ~Skipped(v)
            /\ (query.params.center \/ query.params.no_mean_imputation)
                   => x \in Called(v)
        Sv(i) == bind_data.scored_variants[i + 1]
        Alleles(i) == IF Counts(Sv(i).variant_idx) THEN 2 ELSE 0
        Dosage(i) ==
            LET v == Sv(i).variant_idx
                alt == IF x \in Called(v) THEN DosageScale * Geno(ds, v, x)
                       ELSE (DosageScale * AltSum(v)) \div Cardinality(Called(v))
            IN IF ~Counts(v) \/ query.params.center THEN 0
               ELSE IF Sv(i).flip THEN 2 * DosageScale - alt ELSE alt
        n == Len(bind_data.scored_variants)
    IN [allele_ct |-> SumTo(Alleles, n), named_allele_dosage_sum |-> SumTo(Dosage, n)]

\* C13: in the sample-oriented kernels the row of effective slot s carries
\* the identifier of the s-th smallest selected original sample and the
\* statistics of that same sample (its missing-call count, or its score
\* accumulators), whatever the order of the `samples` list and of the
\* weights; so the rows are in ascending original-sample order.
C13_SlotIsNthSample ==
    bind_data.kernel \in SampleKernels =>
        /\ \A k \in DOMAIN out :
              /\ out[k].iid = GetIid(NthSelected(k[1]))
              /\ (bind_data.kernel = "missing_sample" /\ query.params.need) =>
                     out[k].missing_ct = MissingCalls(NthSelected(k[1]))
              /\ bind_data.kernel = "score" =>
                     /\ out[k].allele_ct = ExpectedScore(NthSelected(k[1])).allele_ct
                     /\ out[k].named_allele_dosage_sum =
                            ExpectedScore(NthSelected(k[1])).named_allele_dosage_sum
        /\ \A k1, k2 \in DOMAIN out :
              k1[1] < k2[1] => SampleOf(out[k1]) < SampleOf(out[k2])

\* A finished query over the subset given as <<3, 0>>: slot 0 carries
\* sample 0 and slot 1 sample 3, and the two rows differ in their
\* statistics.
C13_Witness ==
    /\ bind_data.kernel \in SampleKernels
    /\ QueryDone
    /\ query.params.samples.indices = <<3, 0>>
    /\ DOMAIN out = {<<0>>, <<1>>}
    /\ out[<<0>>].iid = GetIid(0) /\ out[<<1>>].iid = GetIid(3)
    /\ \/ /\ bind_data.kernel = "missing_sample"
          /\ out[<<0>>].missing_ct # out[<<1>>].missing_ct
       \/ /\ bind_data.kernel = "score"
          /\ query.params.weights.mode = "id_keyed"
          /\ out[<<0>>].named_allele_dosage_sum # out[<<1>>].named_allele_dosage_sum

\* C14: sample-mode missingness with a missingness column projected.  The
\* row of a sample carries as missing_ct the number of variants of
\* [start_idx, end_idx) at which that sample has no call and as obs_ct the
\* remainder: missing_ct + obs_ct = total_variant_ct = end_idx - start_idx
\* and 0 <= missing_ct <= total_variant_ct.
C14_MissingPlusObs ==
    (bind_data.kernel = "missing_sample" /\ query.params.need) =>
        \A k \in DOMAIN out :
           /\ out[k].missing_ct = MissingCalls(SampleOf(out[k]))
           /\ out[k].obs_ct = Cardinality(RangeVariants) - out[k].missing_ct
           /\ out[k].missing_ct + out[k].obs_ct = gstate.total_variant_ct
           /\ gstate.total_variant_ct =
                  gstate.end_variant_idx - gstate.start_variant_idx
           /\ 0 <= out[k].missing_ct
           /\ out[k].missing_ct <= gstate.total_variant_ct

\* A finished sample-mode query over at least three variants with a row of
\* a sample that has both missing and observed calls, and a row of a sample
\* without a missing call.
C14_Witness ==
    /\ bind_data.kernel = "missing_sample"
    /\ query.params.need
    /\ QueryDone
    /\ gstate.total_variant_ct >= 3
    /\ \E k1, k2 \in DOMAIN out :
          /\ out[k1].missing_ct > 0 /\ out[k1].obs_ct > 0
          /\ out[k2].missing_ct = 0 /\ out[k2].obs_ct = gstate.total_variant_ct

\* C15: projection pushdown in the frequency, HWE and missingness kernels.
\* When no projected column needs a value read from the genotypes, no
\* worker ever opens a header context or a reader or allocates a buffer
\* for one, no worker's state is initialised and nothing can fail; the
\* variant-oriented scans still write one row per variant of the range
\* (none for an empty range).
C15_ProjectionPushdown ==
    (bind_data.kernel \in VariantKernels \cup {"missing_sample"}
        /\ ~query.params.need) =>
        /\ \A w \in Workers :
              /\ res[w].pgfi = "none" /\ res[w].pgr = "none"
              /\ res[w].bufs = {} /\ res[w].released = << >>
              /\ ~lstate[w].initialized
        /\ ~aborted
        /\ (bind_data.kernel \in VariantKernels /\ QueryDone) =>
              /\ DOMAIN emitted = {<<v>> : v \in RangeVariants}
              /\ \A k \in DOMAIN emitted : emitted[k] = 1

\* A finished variant-oriented query without a genotype column in which
\* two workers, both with their local state already destroyed, wrote the
\* rows of a range of at least three variants.
C15_Witness ==
    /\ bind_data.kernel \in VariantKernels
    /\ ~query.params.need
    /\ QueryDone
    /\ Cardinality(DOMAIN emitted) >= 3
    /\ \E w1, w2 \in Workers :
          /\ w1 # w2
          /\ last_row[w1] # << >> /\ last_row[w2] # << >>
          /\ ~res[w1].alive /\ ~res[w2].alive

\* The exit paths of a worker that had a local state: it returned its last
\* batch, it threw (in init-local or in a scan call), or the query was
\* aborted or cancelled around it; on each the local state is destroyed.
Exited(w) == ~res[w].alive /\ pc[w] \in {"finished", "failed", "idle"}

\* C16, as stated: once a worker's local state is gone, on whichever exit
\* path, no header context and no reader it opened still holds its open
\* file, and no aligned buffer is still allocated.
C16_AsStated ==
    \A w \in Workers :
       Exited(w) =>
          /\ res[w].pgfi # "open"
          /\ res[w].pgr # "open"
          /\ res[w].bufs = {}

\* What does hold on every exit path: the aligned buffers are freed, and a
\* local state destroyed after init-local completed has both handles closed.
BuffersFreedOnExit ==
    \A w \in Workers :
       Exited(w) =>
          /\ res[w].bufs = {}
          /\ lstate[w].initialized => res[w].pgfi = "closed" /\ res[w].pgr = "closed"

\* C17: whenever a worker's decoder state is torn down, in the destructor
\* of the local state or on the failure path of PgrInit, the reader is
\* cleaned up before the header context, never after it, and the aligned
\* buffers are freed after both clean-ups.
C17_CleanupOrder ==
    \A w \in Workers :
       LET log == res[w].released
           Rank(x) == CASE x = "pgr" -> 1 [] x = "pgfi" -> 2 [] x = "bufs" -> 3
       IN /\ \A i, j \in DOMAIN log : i < j => Rank(log[i]) < Rank(log[j])
          /\ (\E i \in DOMAIN log : log[i] = "pgr") =>
                 \E i \in DOMAIN log : log[i] = "pgfi"

\* A finished query after which a destroyed worker has released, in this
\* order, its reader, its header context and its buffers.
C17_Witness ==
    /\ \E w \in Workers :
          /\ ~res[w].alive
          /\ res[w].released = <<"pgr", "pgfi", "bufs">>
          /\ lstate[w].initialized
          /\ pc[w] = "finished"
    /\ QueryDone

\* No global state, no worker and no per-thread reader has been made.
NothingConstructed ==
    /\ bind_data = NoBindData
    /\ gstate = NoGlobalState
    /\ \A w \in Workers : pc[w] = "not_created" /\ res[w] = NoResources

\* C18, as stated: a score query bind rejects for its configuration has
\* opened no file, loaded no sidecar and constructed no reader.
C18_AsStated ==
    (/\ query.params.kernel = "score"
     /\ host = "invalid_input"
     /\ \/ query.params.center /\ query.params.no_mean_imputation
        \/ query.params.weights.mode = "none") =>
        io = {} /\ NothingConstructed

\* C18: a score query with center and no_mean_imputation both true, or
\* without weights, never gets past bind: bind throws, and neither a global
\* state nor a per-thread reader is ever made.  The first error is raised
\* before any file is touched; the missing weights are noticed only after
\* bind has read the genotype file's header and loaded both sidecars.
C18_ConfigErrors ==
    query.params.kernel = "score" =>
        /\ host \in {"bound", "running"} =>
              /\ ~(query.params.center /\ query.params.no_mean_imputation)
              /\ query.params.weights.mode # "none"
        /\ host = "invalid_input" =>
              /\ NothingConstructed
              /\ IF query.params.center /\ query.params.no_mean_imputation
                 THEN io = {}
                 ELSE /\ \/ query.params.weights.mode = "none"
                         \/ WeightsListInvalid(query.params)
                      /\ io = BindFiles

\* Bind has rejected a score query for its missing weights, with the
\* genotype file's header read and the sidecars loaded.
C18_Witness ==
    /\ query.params.kernel = "score"
    /\ host = "invalid_input"
    /\ query.params.weights.mode = "none"
    /\ ~query.params.center
    /\ io = BindFiles

\* Every call of the variant is missing.
AllMissing(v) ==
    \A x \in 0..(RawSampleCt(query.params.ds) - 1) : Geno(query.params.ds, v, x) = 3

\* C19, as stated: the row of an all-missing variant carries p_hwe = 1.0
\* and null o_het and e_het.
C19_AsStated ==
    (bind_data.kernel = "hardy" /\ query.params.need) =>
        \A k \in DOMAIN out :
           AllMissing(k[1]) =>
              /\ out[k].p_hwe = Value(<<"1.0">>)
              /\ out[k].o_het.is_null /\ out[k].e_het.is_null

\* C19: in the HWE kernel with a statistics column projected, the row of a
\* variant whose calls are all missing has a NULL p_hwe along with NULL
\* o_het and e_het and zero genotype counts; the row of any other variant
\* has all three statistics non-null.
C19_AllMissingNull ==
    (bind_data.kernel = "hardy" /\ query.params.need) =>
        \A k \in DOMAIN out :
           IF AllMissing(k[1])
           THEN /\ out[k].p_hwe.is_null
                /\ out[k].o_het.is_null /\ out[k].e_het.is_null
                /\ out[k].hom_ref_ct + out[k].het_ct + out[k].hom_alt_ct = 0
           ELSE /\ ~out[k].p_hwe.is_null
                /\ ~out[k].o_het.is_null /\ ~out[k].e_het.is_null

\* A finished HWE query that wrote the row of an all-missing variant and
\* the row of a variant with observations.
C19_Witness ==
    /\ bind_data.kernel = "hardy"
    /\ query.params.need
    /\ QueryDone
    /\ \E k1, k2 \in DOMAIN out :
          /\ AllMissing(k1[1]) /\ out[k1].p_hwe.is_null
          /\ ~AllMissing(k2[1]) /\ ~out[k2].p_hwe.is_null

\* The samples with a call at both variants of the pair.
SharedSamples(p) ==
    {x \in 0..(RawSampleCt(query.params.ds) - 1) :
        Geno(query.params.ds, p[1], x) # 3 /\ Geno(query.params.ds, p[2], x) # 3}

\* The variant has the same genotype in all the given samples.
Monomorphic(v, samples) ==
    \A x, y \in samples : Geno(query.params.ds, v, x) = Geno(query.params.ds, v, y)

\* C20: every LD row carries as OBS_CT the number n of samples with a call
\* at both variants; its R2 and D_PRIME are NULL exactly when n < 2 or one
\* of the two variants is monomorphic over those samples, and are both
\* non-null otherwise.
C20_InvalidLd ==
    bind_data.kernel \in LdKernels =>
        \A k \in DOMAIN out :
           LET n == Cardinality(SharedSamples(k))
               invalid == \/ n < 2
                          \/ Monomorphic(k[1], SharedSamples(k))
                          \/ Monomorphic(k[2], SharedSamples(k))
           IN /\ out[k].obs_ct = n
              /\ out[k].r2.is_null <=> invalid
              /\ out[k].d_prime.is_null <=> invalid

\* A pairwise query that wrote the row of a pair with four shared samples
\* whose second variant is monomorphic: R2 and D_PRIME are NULL.
C20_Witness ==
    /\ bind_data.kernel = "ld_pairwise"
    /\ QueryDone
    /\ \E k \in DOMAIN out :
          /\ out[k].obs_ct = 4
          /\ ~Monomorphic(k[1], SharedSamples(k))
          /\ Monomorphic(k[2], SharedSamples(k))
          /\ out[k].r2.is_null /\ out[k].d_prime.is_null

\* The entries of the scored-variant list at whose variant one of the
\* given original samples has a call.
ScoredWithCall(samples) ==
    {i \in DOMAIN bind_data.scored_variants :
        \E x \in samples :
           Geno(query.params.ds, bind_data.scored_variants[i].variant_idx, x) # 3}

\* C21: the allele_ct of a score row, without centering.  By default it is
\* twice the number of scored variants with a call in at least one selected
\* sample, the same for every sample; with no_mean_imputation it is twice
\* the number of scored variants at which the row's own sample has a call.
C21_AlleleCt ==
    (bind_data.kernel = "score" /\ ~query.params.center) =>
        \A k \in DOMAIN out :
           out[k].allele_ct =
              2 * Cardinality(ScoredWithCall(IF query.params.no_mean_imputation
                                             THEN {NthSelected(k[1])}
                                             ELSE Selected))

\* A finished query without mean imputation over all four samples and four
\* scored variants in which one sample has a call everywhere (allele_ct 8)
\* and another misses one (allele_ct 6).
C21_Witness ==
    /\ bind_data.kernel = "score"
    /\ ~query.params.center /\ query.params.no_mean_imputation
    /\ QueryDone
    /\ Len(bind_data.scored_variants) = 4
    /\ \E k1, k2 \in DOMAIN out : out[k1].allele_ct = 8 /\ out[k2].allele_ct = 6

\* The variants of the region filter the caller gave.
QueryRange ==
    IF query.params.variant_range.has_filter
    THEN query.params.variant_range.start_idx ..
            (query.params.variant_range.end_idx - 1)
    ELSE 0..(RawVariantCt(query.params.ds) - 1)

\* The weight entries that name a variant of the range by its ID, with that
\* variant's ALT or REF allele.
SurvivingEntries ==
    {e \in {query.params.weights.list[i] : i \in DOMAIN query.params.weights.list} :
        \E v \in QueryRange :
           GetId(v) = e.id /\ e.allele \in {GetAlt(v), GetRef(v)}}

\* The scored variant a surviving entry stands for.
ScoredEntry(e) ==
    LET v == CHOOSE v \in QueryRange : GetId(v) = e.id
    IN [variant_idx |-> v, weight |-> e.weight, flip |-> e.allele = GetRef(v)]

\* The score_sum of original sample x over the surviving entries alone
\* (default or no_mean_imputation mode), in units of
\* 1 / (WeightScale * DosageScale).
SurvivingScoreSum(x) ==
    LET ds == query.params.ds
        Called(v) == {y \in Selected : Geno(ds, v, y) # 3}
        AltSum(v) == SumTo(LAMBDA y : IF y \in Called(v) THEN Geno(ds, v, y) ELSE 0,
                           RawSampleCt(ds))
        Term(v) ==
            IF \E e \in SurvivingEntries : ScoredEntry(e).variant_idx = v
            THEN LET sv == ScoredEntry(CHOOSE e \in SurvivingEntries :
                                          ScoredEntry(e).variant_idx = v)
                     alt == IF x \in Called(v) THEN DosageScale * Geno(ds, v, x)
                            ELSE (DosageScale * AltSum(v)) \div Cardinality(Called(v))
                 IN IF Called(v) = {}
                       \/ (query.params.no_mean_imputation /\ x \notin Called(v))
                    THEN 0
                    ELSE sv.weight * (IF sv.flip THEN 2 * DosageScale - alt ELSE alt)
            ELSE 0
    IN SumTo(Term, RawVariantCt(ds))

\* C22: ID-keyed scoring.  The entries whose id is not the ID of a variant
\* of [start_idx, end_idx), or whose allele is neither that variant's ALT
\* nor its REF, raise no error at bind; the scored set is exactly the
\* surviving entries, in ascending variant-index order; and the score_sum
\* and allele_ct of every row are those of the surviving entries alone.
C22_DroppedEntries ==
    (query.params.kernel = "score" /\ query.params.weights.mode = "id_keyed"
        /\ ~(query.params.center /\ query.params.no_mean_imputation)) =>
        /\ host # "invalid_input"
        /\ host \in {"bound", "running"} =>
              /\ {bind_data.scored_variants[i] : i \in DOMAIN bind_data.scored_variants}
                    = {ScoredEntry(e) : e \in SurvivingEntries}
              /\ \A i, j \in DOMAIN bind_data.scored_variants :
                    i < j => bind_data.scored_variants[i].variant_idx
                                < bind_data.scored_variants[j].variant_idx
              /\ ~query.params.center =>
                    \A k \in DOMAIN out :
                       /\ out[k].score_sum = SurvivingScoreSum(NthSelected(k[1]))
                       /\ out[k].allele_ct =
                             2 * Cardinality(
                                   {e \in SurvivingEntries :
                                       \E x \in (IF query.params.no_mean_imputation
                                                 THEN {NthSelected(k[1])} ELSE Selected) :
                                          Geno(query.params.ds,
                                               ScoredEntry(e).variant_idx, x) # 3})

\* A finished ID-keyed query over the whole file: of the five entries the
\* one with the unknown id and the one with the foreign allele are gone,
\* three variants were scored, one of them flipped, and the rows carry
\* non-zero score sums.
C22_Witness ==
    /\ bind_data.kernel = "score"
    /\ query.params.weights.mode = "id_keyed"
    /\ ~query.params.center
    /\ QueryDone
    /\ Len(query.params.weights.list) = 5
    /\ Len(bind_data.scored_variants) = 3
    /\ \E i \in DOMAIN bind_data.scored_variants : bind_data.scored_variants[i].flip
    /\ Cardinality(DOMAIN out) = 4
    /\ \A k \in DOMAIN out : out[k].score_sum # 0

\* The score sums 2.1, 1.4, 3.0, 1.5 of the four samples, in tenths.
FixtureScoreSums == <<21, 14, 30, 15>>

\* C23: on fixture A (four variants, four samples) with the positional
\* weights 0.5, -0.3, 1.2, 0.8 and default mean imputation, the rows of
\* samples S1..S4 carry score_sum 2.1, 1.4, 3.0, 1.5, allele_ct 8 and
\* score_avg = score_sum / 8.
C23_FixtureScores ==
    (/\ bind_data.kernel = "score"
     /\ query.params.ds.geno = GenoA
     /\ query.params.weights = [mode |-> "positional", list |-> FixtureWeights]
     /\ ~query.params.center /\ ~query.params.no_mean_imputation
     /\ ~query.params.samples.given) =>
        \A k \in DOMAIN out :
           /\ out[k].iid = Iids[k[1] + 1]
           /\ out[k].score_sum = DosageScale * FixtureScoreSums[k[1] + 1]
           /\ out[k].allele_ct = 8
           /\ out[k].score_avg = <<DosageScale * FixtureScoreSums[k[1] + 1], 8>>

\* The finished fixture query, with the rows of all four samples written;
\* S1 and S2 each have a call imputed with the variant's mean 1.0.
C23_Witness ==
    /\ bind_data.kernel = "score"
    /\ query.params.ds.geno = GenoA
    /\ query.params.weights = [mode |-> "positional", list |-> FixtureWeights]
    /\ ~query.params.center /\ ~query.params.no_mean_imputation
    /\ ~query.params.samples.given
    /\ QueryDone
    /\ DOMAIN out = {<<0>>, <<1>>, <<2>>, <<3>>}
    /\ out[<<3>>].score_sum = DosageScale * 15

\* ------------------------------------------------------------------------
\* C24: every integer of a samples list outside [0, raw_sample_ct), negative,
\* at or above the sample count, or too wide for 32 bits, makes bind fail
\* with the out-of-range error, so a resolved index is always a value the
\* caller wrote.
SamplesCallDone == call.fn \in {"ResolveSampleIndices", "PfileBind"} /\ call.done

InSampleRange(v, raw_sample_ct) == v[1] = 0 /\ v[2] < raw_sample_ct

C24_AsStated ==
    SamplesCallDone =>
       /\ (\E i \in DOMAIN call.children :
              ~InSampleRange(call.children[i], call.raw_sample_ct))
          => call.result.status = "out_of_range"
       /\ \A j \in DOMAIN call.result.indices :
             \E i \in DOMAIN call.children :
                call.children[i] = <<0, call.result.indices[j]>>

\* ------------------------------------------------------------------------
\* C25: for a well-formed region chrom:start-end over a sidecar whose
\* chromosomes are contiguous and position-sorted, ParseRegion answers the
\* half-open range of exactly the variants of that chromosome with
\* start <= pos <= end, and the empty range if there is none.
RegionVariants(r, ds) ==
    { vidx \in 0..(RawVariantCt(ds) - 1) :
         /\ <<GetChrom(ds, vidx)>> = <<r.chrom>>
         /\ r.form # "chr" => Int64Leq(r.start, <<0, GetPos(ds, vidx)>>)
         /\ ~r.open_end => Int64Leq(<<0, GetPos(ds, vidx)>>, r.end) }

C25_AsStated ==
    (call.fn = "ParseRegion" /\ call.done /\ call.region.form = "chr:start-end") =>
        /\ call.result.status = "ok"
        /\ LET range == call.result.variant_range
           IN /\ range.has_filter
              /\ range.start_idx <= range.end_idx
              /\ range.start_idx..(range.end_idx - 1) = RegionVariants(call.region, call.ds)

\* C25 for the regions whose bounds fit 32 bits.
C25_Int32Regions ==
    (/\ call.fn = "ParseRegion" /\ call.done /\ call.region.form = "chr:start-end"
     /\ call.region.start[1] = 0 /\ call.region.end[1] = 0) =>
        /\ call.result.status = "ok"
        /\ LET range == call.result.variant_range
           IN /\ range.has_filter
              /\ range.start_idx <= range.end_idx
              /\ range.start_idx..(range.end_idx - 1) = RegionVariants(call.region, call.ds)

\* ------------------------------------------------------------------------
\* C26: the region parameter of the analysis functions and of read_pfile
\* accepts 'chr', 'chr:start-end' and 'chr:start-': each form binds and
\* selects the variants of the chromosome inside the interval.
DocumentedForms == {"chr", "chr:start-end", "chr:start-"}

C26_AsStated ==
    (/\ call.fn \in {"ParseRegion", "PfileParseRegion"} /\ call.done
     /\ call.region.form \in DocumentedForms) =>
        /\ call.result.status = "ok"
        /\ call.fn = "ParseRegion" =>
              LET range == call.result.variant_range
              IN range.start_idx..(range.end_idx - 1) = RegionVariants(call.region, call.ds)
        /\ call.fn = "PfileParseRegion" =>
              { call.result.effective_variant_indices[i] :
                   i \in DOMAIN call.result.effective_variant_indices }
                 = RegionVariants(call.region, call.ds)

\* ------------------------------------------------------------------------
\* C27: a sample sidecar without a #FID or #IID header is read as a .fam of
\* six whitespace-delimited columns: with blanks or with tabs between the
\* fields, every loader succeeds with one sample per line and takes the
\* IID from the second column.
C27_AsStated ==
    (/\ call.fn \in {"LoadSampleInfo", "PsamInitGlobal", "LoadPfileSampleMetadata"}
     /\ call.done
     /\ call.file.format = "fam") =>
        /\ call.result.status = "ok"
        /\ call.fn = "LoadSampleInfo" =>
              /\ call.result.sample_ct = Len(call.file.iids)
              /\ call.result.iids = [i \in DOMAIN call.file.iids |-> <<call.file.iids[i]>>]
        /\ call.fn # "LoadSampleInfo" =>
              /\ Len(call.result.rows) = Len(call.file.iids)
              /\ \A i \in DOMAIN call.file.iids :
                    /\ Len(call.result.rows[i]) = Len(FAM_COLUMN_NAMES)
                    /\ call.result.rows[i][2] = <<call.file.iids[i]>>

\* C27 for the .fam files whose fields are separated by tabs.
TabSeparated(file) == \A i \in DOMAIN file.lines : Find(file.lines[i], " ") = 0

C27_TabSeparated ==
    (/\ call.fn \in {"LoadSampleInfo", "PsamInitGlobal", "LoadPfileSampleMetadata"}
     /\ call.done
     /\ call.file.format = "fam"
     /\ TabSeparated(call.file)) =>
        /\ call.result.status = "ok"
        /\ call.fn = "LoadSampleInfo" =>
              /\ call.result.sample_ct = Len(call.file.iids)
              /\ call.result.iids = [i \in DOMAIN call.file.iids |-> <<call.file.iids[i]>>]
        /\ call.fn # "LoadSampleInfo" =>
              /\ Len(call.result.rows) = Len(call.file.iids)
              /\ \A i \in DOMAIN call.file.iids :
                    /\ Len(call.result.rows[i]) = Len(FAM_COLUMN_NAMES)
                    /\ call.result.rows[i][2] = <<call.file.iids[i]>>

\* ------------------------------------------------------------------------
\* C28: read_pfile in tidy mode writes every (variant, sample) pair of the
\* effective variants and output samples exactly once, variant by variant
\* and within a variant in ascending sample order, skipping none. A variant
\* cut by the end of a batch is resumed at its next sample with its
\* genotypes still loaded, so it is decoded once. A finished query has
\* written effective_variant_ct * output_sample_ct rows.
TidyKeys == RangeVariants \X (0..(EffectiveSampleCt - 1))

InScanCall(w) ==
    pc[w] \notin {"not_created", "init", "idle", "finished", "failed", "unused"}

BindFailed == host \in {"invalid_input", "io_error"}

C29_Termination ==
    /\ <>(BindFailed \/ aborted
            \/ \A w \in Workers : pc[w] \in {"finished", "failed", "unused"})
    /\ \A w \in Workers : InScanCall(w) ~> ~InScanCall(w)
    /\ [][\A w \in Workers :
             (LdPartner(w) /\ pc'[w] = "ld_partner")
                => frame'[w].j > frame[w].j]_vars

\* A finished windowed-LD query across chromosomes in which a worker was
\* called at least three times and a pair of variants of two chromosomes
\* was written.
C29_Witness ==
    /\ bind_data.kernel = "ld_windowed"
    /\ bind_data.inter_chr
    /\ QueryDone
    /\ \E w \in Workers : ret[w].calls >= 3
    /\ \E k \in DOMAIN emitted :
          GetChrom(bind_data.ds, k[1]) # GetChrom(bind_data.ds, k[2])

\* ------------------------------------------------------------------------
\* C30: windowed LD, any number of workers: every anchor of
\* [start_idx, end_idx) is claimed by exactly one worker, exactly once;
\* every row has vidx_a < vidx_b; and no unordered pair of variants is
\* written more than once.
C30_AnchorsOnce ==
    bind_data.kernel = "ld_windowed" =>
        /\ \A a \in DOMAIN claimed : claimed[a] = 1 /\ a[1] \in RangeVariants
        /\ \A w, v \in Workers :
              (w # v /\ lstate[w].in_window /\ lstate[v].in_window)
                 => lstate[w].anchor_idx # lstate[v].anchor_idx
        /\ QueryDone => \A a \in RangeVariants : Count(claimed, <<a>>) = 1
        /\ \A k \in DOMAIN emitted :
              /\ k[1] < k[2]
              /\ emitted[k] = 1
              /\ <<k[2], k[1]>> \notin DOMAIN emitted
              /\ <<k[1]>> \in DOMAIN claimed

\* A finished windowed-LD query over four variants in which both workers
\* claimed anchors and both wrote rows.
C30_Witness ==
    /\ bind_data.kernel = "ld_windowed"
    /\ QueryDone
    /\ Cardinality(DOMAIN claimed) = 4
    /\ \A w \in Workers : last_row[w] # << >>
    /\ \E w, v \in Workers : last_row[w][1] # last_row[v][1]

====
